---- MODULE Spec2Model ----
(***************************************************************************)
(* A model of BookIQ's receipt engine (src/src/parse.py,                   *)
(* src/src/categorize.py), its vendor memory (src/src/memory.py), its      *)
(* transaction store (src/src/storage.py) and the flows of src/app.py      *)
(* that drive them.                                                        *)
(*                                                                         *)
(* Text is modelled character by character: a Python str is a TLA+ string, *)
(* read with Len, SubSeq and \o.  Floating-point confidences and scores    *)
(* are integers in millionths (0.92 is 920000), money is in cents.          *)
(***************************************************************************)
EXTENDS Integers, Sequences, FiniteSets, TLC

VARIABLES
    raw_text,     \* app.py: st.session_state["raw_text"], the OCR text
    vendor_in,    \* the vendor string handed to categorize / typed in the form
    fields,       \* app.py: fields = extract_fields(raw_text)
    suggestion,   \* app.py: suggestion = categorize(raw_text, vendor0, MEM)
    form,         \* app.py: the editable form values and needs_review_flag
    MEM,          \* app.py: MEM = load_memory(WS_DIR), one per session
    memfile,      \* the workspace's memory.json
    persisted,    \* history: every vendor key save_memory ever wrote
    last_write,   \* history: the last remember_vendor_mapping call
    rows,         \* the workspace's transactions.csv, in file order
    next_id,      \* the ids add_txn has handed out
    now,          \* the clock _now() reads, in seconds
    pc            \* the session's place in its script run

vars == <<raw_text, vendor_in, fields, suggestion, form, MEM, memfile,
          persisted, last_write, rows, next_id, now, pc>>

(***************************************************************************)
(* Python values                                                           *)
(***************************************************************************)
None == "<None>"          \* where a str is expected
NoneRec == [none |-> TRUE]  \* where a dict, a tuple or a match is expected

Min(a, b) == IF a <= b THEN a ELSE b
Max(a, b) == IF a >= b THEN a ELSE b

(***************************************************************************)
(* Characters and strings                                                  *)
(***************************************************************************)
LowerChars == "abcdefghijklmnopqrstuvwxyz"
UpperChars == "ABCDEFGHIJKLMNOPQRSTUVWXYZ"
DigitChars == "0123456789"
NL == "\n"

Ch(s, i) == SubSeq(s, i, i)
CharsOf(s) == {Ch(s, i) : i \in 1..Len(s)}

LowerSet == CharsOf(LowerChars)
UpperSet == CharsOf(UpperChars)
DigitSet == CharsOf(DigitChars)
AlphaSet == LowerSet \cup UpperSet
AlnumSet == AlphaSet \cup DigitSet
WordSet == AlnumSet \cup {"_"}
SpaceSet == {" ", NL}

LowerOf == [c \in UpperSet |->
              Ch(LowerChars, CHOOSE i \in 1..26 : Ch(UpperChars, i) = c)]
UpperOf == [c \in LowerSet |->
              Ch(UpperChars, CHOOSE i \in 1..26 : Ch(LowerChars, i) = c)]
DigitVal == [c \in DigitSet |-> (CHOOSE i \in 1..10 : Ch(DigitChars, i) = c) - 1]

LowerCh(c) == IF c \in UpperSet THEN LowerOf[c] ELSE c
UpperCh(c) == IF c \in LowerSet THEN UpperOf[c] ELSE c

RECURSIVE MapFrom(_, _, _)
MapFrom(F(_), s, i) ==
    IF i > Len(s) THEN "" ELSE F(Ch(s, i)) \o MapFrom(F, s, i + 1)

\* str.lower(), str.upper()
Lower(s) == MapFrom(LowerCh, s, 1)
Upper(s) == MapFrom(UpperCh, s, 1)

\* k in s
IsSubstr(k, s) ==
    \E i \in 1..(Len(s) - Len(k) + 1) : SubSeq(s, i, i + Len(k) - 1) = k

\* any(k in s for k in keys)
ContainsAny(s, keys) == \E j \in 1..Len(keys) : IsSubstr(keys[j], s)

CountIn(s, S) == Cardinality({i \in 1..Len(s) : Ch(s, i) \in S})

\* str.split(sep) for a one-character sep, and str.split()
RECURSIVE SplitFrom(_, _, _, _)
SplitFrom(s, seps, i, cur) ==
    IF i > Len(s) THEN <<cur>>
    ELSE IF Ch(s, i) \in seps
         THEN <<cur>> \o SplitFrom(s, seps, i + 1, "")
         ELSE SplitFrom(s, seps, i + 1, cur \o Ch(s, i))

SelectNonEmpty(q) == SelectSeq(q, LAMBDA x : x # "")

SplitWs(s) == SelectNonEmpty(SplitFrom(s, SpaceSet, 1, ""))

DropLastEmpty(parts) ==
    IF parts[Len(parts)] = "" THEN SubSeq(parts, 1, Len(parts) - 1) ELSE parts

\* str.splitlines(): no empty last line after a trailing line break
SplitLines(s) ==
    IF s = "" THEN <<>> ELSE DropLastEmpty(SplitFrom(s, {NL}, 1, ""))

RECURSIVE JoinFrom(_, _, _)
JoinFrom(q, sep, i) ==
    IF i > Len(q) THEN ""
    ELSE IF i = Len(q) THEN q[i]
    ELSE q[i] \o sep \o JoinFrom(q, sep, i + 1)

\* sep.join(q)
Join(q, sep) == JoinFrom(q, sep, 1)

\* re.sub(r"\s+", " ", s).strip(), which is " ".join(s.split())
CollapseWs(s) == Join(SplitWs(s), " ")

\* s.strip()
RECURSIVE LStrip(_)
LStrip(s) == IF s # "" /\ Head(s) \in SpaceSet THEN LStrip(Tail(s)) ELSE s
RECURSIVE RStrip(_)
RStrip(s) ==
    IF s # "" /\ Ch(s, Len(s)) \in SpaceSet
    THEN RStrip(SubSeq(s, 1, Len(s) - 1)) ELSE s
Strip(s) == RStrip(LStrip(s))

\* "".join(ch for ch in s if ch in keep)
KeepOnly(s, keep) ==
    LET F(c) == IF c \in keep THEN c ELSE "" IN MapFrom(F, s, 1)

\* re.sub(r"[^<keep>]+", " ", s): every run of other characters becomes a
\* space (one space per character here; the caller collapses whitespace)
SoftenExcept(s, keep) ==
    LET F(c) == IF c \in keep THEN c ELSE " " IN MapFrom(F, s, 1)

(***************************************************************************)
(* Regular expressions (Python's re): a pattern is a tree, and Match gives *)
(* the matches starting at position i in the order a backtracking matcher  *)
(* tries them (greedy repetition first, alternatives left to right), so    *)
(* the first one is the match re.search / re.finditer report.  A match is  *)
(* [e |-> the position after it, g |-> the spans of its groups].           *)
(***************************************************************************)
RLit(w) == [t |-> "lit", w |-> w]
\* lo to hi characters of the class cs, greedy; hi < 0 is unbounded
RSet(cs, lo, hi) == [t |-> "set", cs |-> cs, lo |-> lo, hi |-> hi]
ROne(cs) == RSet(cs, 1, 1)
RMaybe(cs) == RSet(cs, 0, 1)
RMany0(cs) == RSet(cs, 0, -1)
RMany1(cs) == RSet(cs, 1, -1)
RSeq(rs) == [t |-> "seq", rs |-> rs]
RAlt(rs) == [t |-> "alt", rs |-> rs]
ROpt(r) == [t |-> "opt", r |-> r]
RStar(r) == [t |-> "star", r |-> r]
RGrp(r) == [t |-> "grp", r |-> r]
RWb == [t |-> "wb"]         \* \b
RNlbW == [t |-> "nlbw"]     \* (?<!\w)
RBol == [t |-> "bol"]       \* ^

IsWordAt(s, i) == i >= 1 /\ i <= Len(s) /\ Ch(s, i) \in WordSet

RECURSIVE RunLen(_, _, _, _)
RunLen(s, i, cs, hi) ==
    IF hi = 0 \/ i > Len(s) \/ Ch(s, i) \notin cs THEN 0
    ELSE 1 + RunLen(s, i + 1, cs, hi - 1)

RECURSIVE FlatMap(_, _, _)
FlatMap(F(_), q, j) ==
    IF j > Len(q) THEN <<>> ELSE F(q[j]) \o FlatMap(F, q, j + 1)

RECURSIVE Match(_, _, _, _)
RECURSIVE MatchSeq(_, _, _, _, _)
RECURSIVE MatchAlt(_, _, _, _, _)

\* the empty match at i
Here(i, g) == <<[e |-> i, g |-> g]>>

\* a run of n characters of the class, longest first, down to lo
SetMatches(n, lo, i, g) ==
    IF n < lo THEN <<>>
    ELSE [k \in 1..(n - lo + 1) |-> [e |-> i + n - k + 1, g |-> g]]

Match(r, s, i, g) ==
    CASE r.t = "lit" ->
           IF i + Len(r.w) - 1 <= Len(s) /\ SubSeq(s, i, i + Len(r.w) - 1) = r.w
           THEN <<[e |-> i + Len(r.w), g |-> g]>> ELSE <<>>
      [] r.t = "set" -> SetMatches(RunLen(s, i, r.cs, r.hi), r.lo, i, g)
      [] r.t = "wb" -> IF IsWordAt(s, i - 1) # IsWordAt(s, i) THEN Here(i, g) ELSE <<>>
      [] r.t = "nlbw" -> IF IsWordAt(s, i - 1) THEN <<>> ELSE Here(i, g)
      [] r.t = "bol" -> IF i = 1 THEN Here(i, g) ELSE <<>>
      [] r.t = "seq" -> MatchSeq(r.rs, 1, s, i, g)
      [] r.t = "alt" -> MatchAlt(r.rs, 1, s, i, g)
      [] r.t = "opt" -> Match(r.r, s, i, g) \o Here(i, g)
      [] r.t = "star" ->
           LET Again(x) == IF x.e > i THEN Match(r, s, x.e, x.g) ELSE <<>>
           IN  FlatMap(Again, Match(r.r, s, i, g), 1) \o Here(i, g)
      [] r.t = "grp" ->
           LET Close(x) == <<[e |-> x.e, g |-> Append(x.g, <<i, x.e>>)]>>
           IN  FlatMap(Close, Match(r.r, s, i, g), 1)

MatchSeq(rs, j, s, i, g) ==
    IF j > Len(rs) THEN <<[e |-> i, g |-> g]>>
    ELSE LET Rest(x) == MatchSeq(rs, j + 1, s, x.e, x.g)
         IN  FlatMap(Rest, Match(rs[j], s, i, g), 1)

MatchAlt(rs, j, s, i, g) ==
    IF j > Len(rs) THEN <<>>
    ELSE Match(rs[j], s, i, g) \o MatchAlt(rs, j + 1, s, i, g)

\* rx.search(s) scanning from position i: [s, e, g] of the leftmost match,
\* which is the first one the matcher finds at the first position that has one
RECURSIVE SearchFrom(_, _, _)
RECURSIVE SearchStep(_, _, _, _)
SearchFrom(r, s, i) ==
    IF i > Len(s) + 1 THEN NoneRec
    ELSE SearchStep(r, s, i, Match(r, s, i, <<>>))

SearchStep(r, s, i, ms) ==
    IF ms # <<>> THEN [s |-> i, e |-> ms[1].e, g |-> ms[1].g]
    ELSE SearchFrom(r, s, i + 1)

\* bool(rx.search(s))
Found(r, s) == SearchFrom(r, s, 1) # NoneRec

\* list(rx.finditer(s)): the non-overlapping matches, left to right
RECURSIVE FindIterFrom(_, _, _)
RECURSIVE FindIterNext(_, _, _)
FindIterFrom(r, s, from) == FindIterNext(r, s, SearchFrom(r, s, from))

FindIterNext(r, s, m) ==
    IF m = NoneRec THEN <<>>
    ELSE <<m>> \o FindIterFrom(r, s, IF m.e > m.s THEN m.e ELSE m.e + 1)

FindIter(r, s) == FindIterFrom(r, s, 1)

\* m.group(k)
Group(s, m, k) == SubSeq(s, m.g[k][1], m.g[k][2] - 1)

\* \b(w1|w2|...)\b for plain words
RWords(ws) == RSeq(<<RWb, RAlt([j \in 1..Len(ws) |-> RLit(ws[j])]), RWb>>)

(***************************************************************************)
(* Python dicts are functions on their keys.                               *)
(***************************************************************************)
EmptyDict == <<>>
DictGet(d, k, default) == IF k \in DOMAIN d THEN d[k] ELSE default
DictSet(d, k, v) == (k :> v) @@ d
\* a test that takes only null for missing
TruthyNotNone(x) == x # None

Truthy(x) == x # None /\ x # ""

\* a JSON number where the code expects a str, as None stands for null
Number == "<number>"

\* s or ""
StrOr(s) == IF s = None THEN "" ELSE s

\* a JSON value that is no object where the code expects a dict
NotADict == [json |-> "list"]

\* isinstance(x, dict)
IsDict(x) == "json" \notin DOMAIN x

\* an exception that leaves the function
Raised == [raises |-> "AttributeError"]

(***************************************************************************)
(* src/src/categorize.py                                                   *)
(***************************************************************************)
Ws0 == RMany0(SpaceSet)                                     \* \s*
RPhrase(a, b) == RSeq(<<RLit(a), Ws0, RLit(b)>>)            \* a\s*b
RPoss(a) == RSeq(<<RLit(a), RMaybe({"'"}), RLit("s")>>)     \* a'?s
RWordAlt(alts) == RSeq(<<RWb, RAlt(alts), RWb>>)            \* \b(...)\b

\* The patterns are compiled with re.I: they are written in lower case here
\* and searched in the lower-cased subject.

VENDOR_RULES == <<
    [rx |-> RWordAlt(<<RSeq(<<RLit("barnes"), Ws0, RLit("&"), Ws0, RLit("noble")>>),
                       RSeq(<<RLit("barnes"), RWb>>), RSeq(<<RLit("noble"), RWb>>),
                       RLit("bn.com"), RLit("bookseller"), RLit("bookstore")>>),
     cat |-> "Office / Admin", why |-> "Books / retail purchase"],
    [rx |-> RWordAlt(<<RLit("shell"), RLit("exxon"), RLit("mobil"), RLit("sunoco"),
                       RLit("wawa"), RLit("sheetz"), RLit("bp"), RLit("citgo"),
                       RLit("chevron"), RLit("valero"), RLit("texaco"),
                       RLit("speedway"), RPhrase("circle", "k")>>),
     cat |-> "Fuel", why |-> "Fuel station vendor"],
    [rx |-> RWordAlt(<<RLit("starbucks"), RLit("dunkin"), RPoss("mcdonald"),
                       RPhrase("burger", "king"), RPoss("wendy"), RLit("chipotle"),
                       RLit("panera"), RLit("subway"), RPhrase("taco", "bell"),
                       RLit("kfc"), RLit("pizza")>>),
     cat |-> "Meals", why |-> "Restaurant / food vendor"],
    [rx |-> RWordAlt(<<RPhrase("home", "depot"), RPoss("lowe"),
                       RPhrase("ace", "hardware"), RPhrase("tractor", "supply"),
                       RLit("menards")>>),
     cat |-> "Materials / Supplies", why |-> "Home improvement / supplies vendor"],
    [rx |-> RWordAlt(<<RPhrase("harbor", "freight"), RLit("grainger"),
                       RLit("fastenal")>>),
     cat |-> "Tools & Equipment", why |-> "Tool / equipment vendor"] >>

TEXT_RULES == <<
    [rx |-> RWordAlt(<<RSeq(<<RLit("gal"), ROpt(RLit("lon")), RMaybe({"s"})>>),
                       RSeq(<<RLit("price"), Ws0, RLit("/"), Ws0, RLit("gal")>>),
                       RLit("/gal"), RLit("ppg"), RLit("unleaded"), RLit("diesel")>>),
     cat |-> "Fuel", why |-> "Fuel terms in receipt"],
    [rx |-> RWords(<<"gratuity", "tip", "server", "table", "dine", "eatery">>),
     cat |-> "Meals", why |-> "Dining terms in receipt"],
    [rx |-> RWordAlt(<<RLit("labor"), RSeq(<<RLit("subcontract"), ROpt(RLit("or"))>>),
                       RPhrase("sub", "contract"), RLit("1099"), RLit("installer")>>),
     cat |-> "Subcontractors", why |-> "Labor/subcontractor terms"],
    [rx |-> RWordAlt(<<RLit("permit"), RLit("license"),
                       RSeq(<<RLit("licen"), ROne({"c", "s"}), RLit("e")>>),
                       RLit("fee"), RLit("inspection"), RLit("registration"),
                       RLit("dmv"), RLit("clerk")>>),
     cat |-> "Permits / Fees", why |-> "Permit/fee terms in receipt"],
    [rx |-> RWordAlt(<<RPhrase("oil", "change"), RLit("tire"), RLit("tires"),
                       RLit("alignment"), RLit("brake"), RLit("brakes"),
                       RLit("mechanic"), RPhrase("service", "center")>>),
     cat |-> "Vehicle Maintenance", why |-> "Vehicle service terms"],
    [rx |-> RWords(<<"office", "paper", "printer", "ink", "staples", "shipping",
                     "postage", "ups", "fedex", "usps">>),
     cat |-> "Office / Admin", why |-> "Office/admin terms"] >>

ANTI_PERMITS_HINTS ==
    RWordAlt(<<RLit("visa"), RLit("discover"), RLit("mastercard"), RLit("amex"),
               RLit("subtotal"), RPhrase("sales", "tax"), RLit("total")>>)

\* _norm of categorize.py
categorize_norm(s) ==
    CollapseWs(SoftenExcept(Lower(s),
        LowerSet \cup DigitSet \cup SpaceSet \cup {"&", ".", "/", "-"}))

MemoryConfidenceMap == 920000
MemoryConfidenceList == 900000

\* the first row of vendor_mappings that names the vendor and has a category;
\* a row that is no dict is passed over, and _norm of a vendor that is a
\* number raises
RECURSIVE FirstMapping(_, _, _)
FirstMapping(vml, vkey, j) ==
    IF j > Len(vml) THEN NoneRec
    ELSE IF ~IsDict(vml[j]) THEN FirstMapping(vml, vkey, j + 1)
    ELSE IF DictGet(vml[j], "vendor", "") = Number THEN Raised
    ELSE IF /\ categorize_norm(StrOr(DictGet(vml[j], "vendor", ""))) = vkey
            /\ Truthy(DictGet(vml[j], "category", None))
         THEN vml[j]
         ELSE FirstMapping(vml, vkey, j + 1)

\* a memory tier that trusts a learned mapping no more than a coin toss
MemoryHitHalf(vkey, hit, row) ==
    IF vkey = "" THEN NoneRec
    ELSE IF Truthy(DictGet(hit, "category", None))
    THEN [category |-> hit["category"],
          confidence |-> MemoryConfidenceMap \div 2,
          reasons |-> <<"Learned from your workspace (vendor mapping)">>]
    ELSE IF row = Raised THEN Raised
    ELSE IF row # NoneRec
    THEN [category |-> row["category"],
          confidence |-> MemoryConfidenceList \div 2,
          reasons |-> <<"Learned from your workspace (vendor mappings)">>]
    ELSE NoneRec

\* the two shapes of the memory, tried in turn: hit is vendor_map's entry of
\* the key, row the first row of vendor_mappings that names it
MemoryHit(vkey, hit, row) ==
    IF vkey = "" THEN NoneRec
    ELSE IF Truthy(DictGet(hit, "category", None))
    THEN [category |-> hit["category"],
          confidence |-> MemoryConfidenceMap,
          reasons |-> <<"Learned from your workspace (vendor mapping)">>]
    ELSE IF row = Raised THEN Raised
    ELSE IF row # NoneRec
    THEN [category |-> row["category"],
          confidence |-> MemoryConfidenceList,
          reasons |-> <<"Learned from your workspace (vendor mappings)">>]
    ELSE NoneRec

\* vm.get(vkey) when vm is a dict and the entry is one, else no entry
EntryOf(vm, vkey) ==
    IF IsDict(vm) /\ IsDict(DictGet(vm, vkey, EmptyDict))
    THEN DictGet(vm, vkey, EmptyDict)
    ELSE EmptyDict

MemoryLookup(vkey, memory) ==
    MemoryHit(vkey,
              EntryOf(DictGet(memory, "vendor_map", EmptyDict), vkey),
              FirstMapping(DictGet(memory, "vendor_mappings", <<>>), vkey, 1))

\* memory.get of a memory that is no dict raises, once the vendor has a key
NoDictLookup(vkey) == IF vkey = "" THEN NoneRec ELSE Raised

\* memory is NoneRec for None, a dict, or NotADict; vendor_map, when present,
\* is a dict or NotADict and vendor_mappings, when present, a list
memory_suggest(vendor, memory) ==
    IF memory = NoneRec \/ DOMAIN memory = {} THEN NoneRec
    ELSE IF ~IsDict(memory) THEN NoDictLookup(categorize_norm(vendor))
    ELSE MemoryLookup(categorize_norm(vendor), memory)

\* the first vendor rule found in the vendor or in the text (both lower-cased)
RECURSIVE FirstVendorRule(_, _, _)
FirstVendorRule(raw, v, j) ==
    IF j > Len(VENDOR_RULES) THEN NoneRec
    ELSE IF Found(VENDOR_RULES[j].rx, v) \/ Found(VENDOR_RULES[j].rx, raw)
         THEN VENDOR_RULES[j]
         ELSE FirstVendorRule(raw, v, j + 1)

\* the first text rule found in the text (lower-cased)
RECURSIVE FirstTextRule(_, _)
FirstTextRule(raw, j) ==
    IF j > Len(TEXT_RULES) THEN NoneRec
    ELSE IF /\ Found(TEXT_RULES[j].rx, raw)
            /\ ~(TEXT_RULES[j].cat = "Permits / Fees" /\ Found(ANTI_PERMITS_HINTS, raw))
         THEN TEXT_RULES[j]
         ELSE FirstTextRule(raw, j + 1)

VendorRuleConfidence == 920000
TextRuleConfidence == 780000

RuleHit(vr, tr) ==
    IF vr # NoneRec
    THEN [category |-> vr.cat, confidence |-> VendorRuleConfidence,
          reasons |-> <<"Vendor rule: " \o vr.why>>]
    ELSE IF tr # NoneRec
    THEN [category |-> tr.cat, confidence |-> TextRuleConfidence,
          reasons |-> <<"Receipt text rule: " \o tr.why>>]
    ELSE NoneRec

LowerRuleHit(raw, v) == RuleHit(FirstVendorRule(raw, v, 1), FirstTextRule(raw, 1))

rule_suggest(raw, vendor) == LowerRuleHit(Lower(raw), Lower(vendor))

\* the keys of scores, in insertion order
CATEGORIES == <<"Fuel", "Meals", "Materials / Supplies", "Tools & Equipment",
                "Vehicle Maintenance", "Office / Admin", "Subcontractors",
                "Permits / Fees", "Other">>

\* the bump calls of the heuristic fallback, in the order of the code
KEYWORD_BUMPS == <<
    [keys |-> <<"gallon", "gal", "/gal", "unleaded", "diesel", "pump", "ppg">>,
     cat |-> "Fuel", n |-> 3, why |-> "Detected fuel terms (gal/pump/diesel/etc.)"],
    [keys |-> <<"restaurant", "grill", "cafe", "coffee", "gratuity", "tip">>,
     cat |-> "Meals", n |-> 2, why |-> "Detected dining terms (restaurant/cafe/tip/etc.)"],
    [keys |-> <<"lumber", "plywood", "concrete", "drywall", "paint", "screws", "nails">>,
     cat |-> "Materials / Supplies", n |-> 2,
     why |-> "Detected materials terms (lumber/paint/hardware items)"],
    [keys |-> <<"drill", "saw", "tool", "battery", "charger", "ladder", "compressor">>,
     cat |-> "Tools & Equipment", n |-> 2, why |-> "Detected tool/equipment terms"],
    [keys |-> <<"oil change", "tire", "tires", "brake", "alignment", "service center">>,
     cat |-> "Vehicle Maintenance", n |-> 2, why |-> "Detected vehicle service terms"],
    [keys |-> <<"office", "paper", "printer", "ink", "shipping", "postage", "staples">>,
     cat |-> "Office / Admin", n |-> 2, why |-> "Detected office/admin terms"],
    [keys |-> <<"labor", "subcontract", "installer", "1099">>,
     cat |-> "Subcontractors", n |-> 2, why |-> "Detected labor/subcontractor terms"],
    [keys |-> <<"permit", "license", "inspection", "registration", "dmv", "clerk", "fee">>,
     cat |-> "Permits / Fees", n |-> 2, why |-> "Detected permits/fees terms"] >>

Bumped(text, b) ==
    /\ ContainsAny(text, b.keys)
    /\ b.cat = "Permits / Fees" => ~Found(ANTI_PERMITS_HINTS, text)

RECURSIVE SumBumps(_, _, _)
SumBumps(text, cat, j) ==
    IF j > Len(KEYWORD_BUMPS) THEN 0
    ELSE (IF KEYWORD_BUMPS[j].cat = cat /\ Bumped(text, KEYWORD_BUMPS[j])
          THEN KEYWORD_BUMPS[j].n ELSE 0) + SumBumps(text, cat, j + 1)

RECURSIVE BumpReasons(_, _)
BumpReasons(text, j) ==
    IF j > Len(KEYWORD_BUMPS) THEN <<>>
    ELSE (IF Bumped(text, KEYWORD_BUMPS[j]) THEN <<KEYWORD_BUMPS[j].why>> ELSE <<>>)
         \o BumpReasons(text, j + 1)

\* max(scores.items(), key=lambda kv: kv[1])[0]: the first key of the largest score
BestCategory(scores) ==
    CATEGORIES[CHOOSE j \in 1..Len(CATEGORIES) :
        /\ \A k \in 1..Len(CATEGORIES) : scores[CATEGORIES[k]] <= scores[CATEGORIES[j]]
        /\ \A k \in 1..(j - 1) : scores[CATEGORIES[k]] < scores[CATEGORIES[j]]]

MaxReasons == 4

\* "Keep reasons short and unique": the first MaxReasons distinct reasons
RECURSIVE Uniq(_, _, _)
RECURSIVE UniqNext(_, _, _)
Uniq(reasons, j, uniq) ==
    IF j > Len(reasons) THEN uniq
    ELSE UniqNext(reasons, j,
                  IF \E k \in 1..Len(uniq) : uniq[k] = reasons[j]
                  THEN uniq ELSE Append(uniq, reasons[j]))

\* the loop without its break at four reasons
UniqNextUncapped(reasons, j, u) == Uniq(reasons, j + 1, u)

UniqNext(reasons, j, u) ==
    IF Len(u) >= MaxReasons THEN u ELSE Uniq(reasons, j + 1, u)

KeywordConfidence(best_score) ==
    IF best_score >= 3 THEN 700000
    ELSE IF best_score = 2 THEN 600000
    ELSE IF best_score = 1 THEN 450000
    ELSE 350000

\* the scores dict after the bump calls
KeywordScores(text) ==
    [c \in {CATEGORIES[j] : j \in 1..Len(CATEGORIES)} |-> SumBumps(text, c, 1)]

HeuristicResult(text, best_cat, best_score) ==
    [category |-> IF best_score >= 1 THEN best_cat ELSE "Other",
     confidence |-> KeywordConfidence(best_score),
     reasons |-> Uniq(IF best_score >= 1 THEN BumpReasons(text, 1)
                      ELSE <<"No strong category signals found">>, 1, <<>>)]

HeuristicPick(text, scores, best_cat) ==
    HeuristicResult(text, best_cat, scores[best_cat])

HeuristicBest(text, scores) == HeuristicPick(text, scores, BestCategory(scores))

HeuristicOf(text) == HeuristicBest(text, KeywordScores(text))

heuristic_fallback(raw) == HeuristicOf(Lower(raw))

\* the tiers with the memory consulted before the rules
FirstHitMemoryFirst(rule_hit, mem_hit, raw) ==
    IF mem_hit # NoneRec THEN mem_hit
    ELSE IF rule_hit # NoneRec THEN rule_hit
    ELSE heuristic_fallback(raw)

\* the first tier that has a suggestion, in the order categorize applies them
FirstHit(rule_hit, mem_hit, raw) ==
    IF rule_hit # NoneRec THEN rule_hit
    ELSE IF mem_hit # NoneRec THEN mem_hit
    ELSE heuristic_fallback(raw)

categorize(raw, vendor, memory) ==
    FirstHit(rule_suggest(raw, vendor), memory_suggest(vendor, memory), raw)

(***************************************************************************)
(* Numbers as text                                                         *)
(***************************************************************************)
\* int(s) for a string of decimal digits
RECURSIVE ParseInt(_)
ParseInt(s) ==
    IF s = "" THEN 0
    ELSE 10 * ParseInt(SubSeq(s, 1, Len(s) - 1)) + DigitVal[Ch(s, Len(s))]

\* str(n) left-padded with zeros to at least w characters, n >= 0
RECURSIVE Digits(_)
Digits(n) == IF n < 10 THEN Ch(DigitChars, n + 1)
             ELSE Digits(n \div 10) \o Ch(DigitChars, (n % 10) + 1)
RECURSIVE PadLeft(_, _)
PadLeft(s, w) == IF Len(s) >= w THEN s ELSE PadLeft("0" \o s, w)
ZeroPad(n, w) == PadLeft(Digits(n), w)

RECURSIVE StripZeros(_)
StripZeros(s) == IF Len(s) > 1 /\ Head(s) = "0" THEN StripZeros(Tail(s)) ELSE s

(***************************************************************************)
(* src/src/parse.py: patterns and vocabularies                             *)
(***************************************************************************)
DigitsN(lo, hi) == RSet(DigitSet, lo, hi)
PhoneSep == RMaybe({"-", "."} \cup SpaceSet)       \* [-.\s]?
DateSep == ROne({"-", "/"})                        \* [-/]

PHONE_RE ==
    RSeq(<<ROpt(RGrp(RSeq(<<RMaybe({"+"}), RLit("1"), PhoneSep>>))),
           RMaybe({"("}), DigitsN(3, 3), RMaybe({")"}), PhoneSep,
           DigitsN(3, 3), PhoneSep, DigitsN(4, 4)>>)
STATE_ZIP_RE ==
    RSeq(<<RWb, RSet(UpperSet, 2, 2), RMany1(SpaceSet), DigitsN(5, 5),
           ROpt(RGrp(RSeq(<<RLit("-"), DigitsN(4, 4)>>))), RWb>>)
DATE_YMD_RE ==
    RSeq(<<RWb, RGrp(RSeq(<<RLit("20"), DigitsN(2, 2)>>)), DateSep,
           RGrp(DigitsN(2, 2)), DateSep, RGrp(DigitsN(2, 2)), RWb>>)
DATE_MDY_RE ==
    RSeq(<<RWb, RGrp(DigitsN(1, 2)), DateSep, RGrp(DigitsN(1, 2)), DateSep,
           RGrp(DigitsN(2, 4)), RWb>>)
TIME_RE ==
    RSeq(<<RWb, RGrp(RSeq(<<DigitsN(1, 2), RLit(":"), DigitsN(2, 2)>>)),
           ROpt(RSeq(<<RLit(":"), DigitsN(2, 2)>>)), RWb>>)
STREET_RE ==    \* ^\d{1,6}\s+[A-Za-z]
    RSeq(<<RBol, DigitsN(1, 6), RMany1(SpaceSet), ROne(AlphaSet)>>)

Thousands == RStar(RSeq(<<RLit(","), DigitsN(3, 3)>>))    \* (?:,[0-9]{3})*
MONEY_2DP_RE ==
    RSeq(<<RNlbW, RMaybe({"$"}), Ws0,
           RGrp(RSeq(<<DigitsN(1, 6), Thousands, RSeq(<<RLit("."), DigitsN(2, 2)>>)>>)),
           RWb>>)
MONEY_INT_RE ==
    RSeq(<<RNlbW, RMaybe({"$"}), Ws0, RGrp(RSeq(<<DigitsN(1, 6), Thousands>>)), RWb>>)

TOTAL_KEYS_STRONG == <<"grand total", "amount due", "total due", "balance due",
                       "amount", "amount paid", "total sale", "sale total",
                       "total amount", "order total", "invoice total", "total">>
TOTAL_KEYS_WEAK == <<"due", "balance", "amt", "paid">>

EXCLUDE_AMOUNT_KEYS == <<
    "subtotal", "sub total", "tax", "sales tax", "vat", "discount", "coupon",
    "change", "cash", "tender", "tip", "gratuity", "service charge",
    "auth", "approval", "authorized", "ref", "trans", "transaction",
    "debit", "credit", "visa", "mastercard", "amex", "discover">>

UNIT_TRAPS == <<
    "gal", "gallon", "gallons", "ltr", "liter", "liters", "l ",
    "qty", "quantity", "units", "unit",
    "lbs", "lb", "pounds", "oz", "ounces",
    "volume", "vol", "pump",
    "price/gal", "price per gal", "ppg", "@">>

\* a Python set: the order plays no part
VENDOR_NOISE == <<
    "thank you", "thanks", "welcome", "come again",
    "receipt", "invoice", "customer copy", "merchant copy", "copy",
    "total", "subtotal", "tax", "change", "cash", "visa", "mastercard", "amex",
    "discover", "approved", "authorization", "auth", "ref", "transaction", "trans">>

ADDRESS_HINTS == {
    "st", "street", "rd", "road", "ave", "avenue", "blvd", "boulevard", "ln", "lane",
    "dr", "drive", "hwy", "highway", "suite", "ste", "unit",
    "pa", "nj", "ny", "ca", "tx", "fl", "il", "oh", "wa", "va", "md", "ma", "ct"}

MERCHANT_WORDS == <<"inc", "llc", "corp", "co", "company", "market", "store",
                    "diner", "cafe", "coffee", "gas", "station">>

(***************************************************************************)
(* src/src/parse.py: helpers                                               *)
(***************************************************************************)
clean_line(s) == CollapseWs(s)

\* _norm of parse.py
parse_norm(s) ==
    CollapseWs(SoftenExcept(Lower(s),
        LowerSet \cup DigitSet \cup {" ", "$", ".", "/", "@"}))

SeqToSet(q) == {q[j] : j \in 1..Len(q)}

looks_like_address(line) ==
    \/ Found(STATE_ZIP_RE, Upper(line))
    \/ /\ SeqToSet(SplitWs(parse_norm(line))) \cap ADDRESS_HINTS # {}
       /\ CountIn(line, DigitSet) > 0
    \/ Found(STREET_RE, line)

has_date_or_time(line) ==
    Found(DATE_YMD_RE, line) \/ Found(DATE_MDY_RE, line) \/ Found(TIME_RE, line)

MaxVendorLineLen == 44

NoisyNorm(low) == low = "" \/ ContainsAny(low, VENDOR_NOISE)

looks_like_vendor_noise(line) ==
    \/ NoisyNorm(parse_norm(line))
    \/ Found(PHONE_RE, line)
    \/ has_date_or_time(line)
    \/ looks_like_address(line)
    \/ Len(line) > MaxVendorLineLen

\* "S H E L L" read as "SHELL": toks is s.split()
JoinSpaced(s, toks) ==
    IF Len(toks) >= 4 /\ \A j \in 1..4 : Len(toks[j]) = 1
    THEN Join(toks, "") ELSE s

collapse_spaced_letters(s) == JoinSpaced(s, SplitWs(s))

MaxMoneyCents == 9999900    \* 99999 dollars

\* None where a number is expected
NoVal == 0 - 1

\* the value in cents of a whole part and a cents part
MoneyCents(whole, cents) ==
    IF Len(whole) > 6 THEN NoVal
    ELSE IF 100 * ParseInt(whole) + cents > MaxMoneyCents THEN NoVal
    ELSE 100 * ParseInt(whole) + cents

\* tok is the token without its commas and spaces; the patterns give it
\* two decimals or none
MoneyOfToken(tok, dot) ==
    MoneyCents(StripZeros(IF dot THEN SubSeq(tok, 1, Len(tok) - 3) ELSE tok),
               IF dot THEN ParseInt(SubSeq(tok, Len(tok) - 1, Len(tok))) ELSE 0)

MoneyOfClean(tok) == MoneyOfToken(tok, IsSubstr(".", tok))

\* _parse_money_val: the value in cents of "1,234.56" or "1,234", or None when
\* it is over 99999
parse_money_val(token) == MoneyOfClean(KeepOnly(Strip(token), DigitSet \cup {"."}))

CurrencyIn(line, low) ==
    \/ IsSubstr("$", line)
    \/ IsSubstr(" usd", " " \o low \o " ")
    \/ IsSubstr("us$", low)

line_has_currency_marker(line) == CurrencyIn(line, parse_norm(line))

UnitTrapIn(low) ==
    \E j \in 1..Len(UNIT_TRAPS) :
        \/ IsSubstr(" " \o UNIT_TRAPS[j] \o " ", low)
        \/ IsSubstr(UNIT_TRAPS[j], low)

line_has_unit_trap(line) == UnitTrapIn(" " \o parse_norm(line) \o " ")

\* the first element of the largest score
Best(q) ==
    CHOOSE j \in 1..Len(q) :
        /\ \A k \in 1..Len(q) : q[k].s <= q[j].s
        /\ \A k \in 1..(j - 1) : q[k].s < q[j].s

\* sorted(q, key=lambda x: x.s, reverse=True): stable, largest score first
RECURSIVE SortDesc(_)
RECURSIVE BestThen(_, _)
SortDesc(q) == IF q = <<>> THEN <<>> ELSE BestThen(q, Best(q))

BestThen(q, j) ==
    <<q[j]>> \o SortDesc(SubSeq(q, 1, j - 1) \o SubSeq(q, j + 1, Len(q)))

CleanEach(ls) == [j \in 1..Len(ls) |-> clean_line(ls[j])]

\* [clean_line(x) for x in raw.splitlines()] without the empty lines
CleanLines(raw) == SelectNonEmpty(CleanEach(SplitLines(raw)))

(***************************************************************************)
(* src/src/parse.py: vendor extraction                                     *)
(***************************************************************************)
NoiseScore == 0 - 999000000      \* -999.0

\* the score of a line that is not noise, from its counts of letters, upper
\* case letters, digits, punctuation and words
ShapeScore(letters, uppers, digits, punct, w) ==
    (IF letters > 0 THEN (900000 * uppers) \div letters ELSE 0)
    - 180000 * digits
    - 220000 * punct
    + (IF 1 <= w /\ w <= 5 THEN 600000 ELSE 0 - 300000)

CleanVendorScore(line) ==
    IF looks_like_vendor_noise(line) THEN NoiseScore
    ELSE ShapeScore(CountIn(line, AlphaSet), CountIn(line, UpperSet),
                    CountIn(line, DigitSet),
                    Len(line) - CountIn(line, AlnumSet \cup {" "}),
                    Len(SplitWs(line)))
         + (IF ContainsAny(parse_norm(line), MERCHANT_WORDS) THEN 250000 ELSE 0)

vendor_score(line0) == CleanVendorScore(clean_line(line0))

VendorWindow == 22
MaxVendorConfidence == 920000
MinVendorConfidence == 250000
MaxCandidates == 3

\* a line and the line after it, joined when both look like name parts
PairOf(a, b) ==
    IF /\ 3 <= Len(a) /\ Len(a) <= 22
       /\ 3 <= Len(b) /\ Len(b) <= 26
       /\ ~looks_like_vendor_noise(a)
       /\ ~looks_like_vendor_noise(b)
    THEN <<a \o " " \o b>> ELSE <<>>

\* the lines of the window and the pairs of adjacent lines, in the order the
\* loop appends them
RECURSIVE VendorCandidates(_, _)
VendorCandidates(top, i) ==
    IF i > Len(top) THEN <<>>
    ELSE <<top[i]>>
         \o (IF i + 1 <= Len(top) THEN PairOf(top[i], top[i + 1]) ELSE <<>>)
         \o VendorCandidates(top, i + 1)

\* the candidates shown to the user: the first MaxCandidates distinct ones
\* among the ten best
RECURSIVE CandList(_, _, _, _)
RECURSIVE CandTake(_, _, _, _, _, _)
RECURSIVE CandStep(_, _, _, _, _, _)
CandList(scored, j, seen, out) ==
    IF j > Len(scored) \/ j > 10 THEN out
    ELSE CandStep(scored, j, seen, out,
                  Strip(collapse_spaced_letters(scored[j].c)), scored[j].s)

CandStep(scored, j, seen, out, c2, sc) ==
    CandTake(scored, j, seen, out, c2,
             IF sc > 0 - 50000000 THEN parse_norm(c2) ELSE "")

\* k is the key of a candidate to take when new, "" for one to pass over
CandTake(scored, j, seen, out, c2, k) ==
    IF k # "" /\ k \notin seen
    THEN (IF Len(out) + 1 >= MaxCandidates THEN Append(out, c2)
          ELSE CandList(scored, j + 1, seen \cup {k}, Append(out, c2)))
    ELSE (IF Len(out) >= MaxCandidates THEN out
          ELSE CandList(scored, j + 1, seen, out))

\* the confidence with the upper clamp left out
vendor_confidence_unclamped(score) ==
    Max(MinVendorConfidence, Max(0, score + 100000))

vendor_confidence(score) ==
    Max(MinVendorConfidence, Max(0, Min(MaxVendorConfidence, score + 100000)))

ScoreEach(cands) ==
    [j \in 1..Len(cands) |-> [c |-> cands[j], s |-> vendor_score(cands[j])]]

\* scored is the candidates, best first
BestVendor(scored) ==
    IF scored = <<>> \/ scored[1].s < 0 - 100000000
    THEN [vendor |-> "", conf |-> 0, cands |-> <<>>]
    ELSE [vendor |-> Strip(collapse_spaced_letters(scored[1].c)),
          conf |-> vendor_confidence(scored[1].s),
          cands |-> CandList(scored, 1, {}, <<>>)]

VendorOfLines(lines) ==
    BestVendor(SortDesc(ScoreEach(
        VendorCandidates(SubSeq(lines, 1, Min(VendorWindow, Len(lines))), 1))))

extract_vendor(raw) == VendorOfLines(CleanLines(raw))

(***************************************************************************)
(* src/src/parse.py: date extraction                                       *)
(***************************************************************************)
IsLeap(y) == y % 4 = 0 /\ (y % 100 # 0 \/ y % 400 = 0)
DaysInMonth(y, m) ==
    IF m = 2 THEN (IF IsLeap(y) THEN 29 ELSE 28)
    ELSE IF m \in {4, 6, 9, 11} THEN 30 ELSE 31

\* datetime(y, m, d) does not raise
ValidDate(y, m, d) ==
    /\ 1 <= y /\ y <= 9999
    /\ 1 <= m /\ m <= 12
    /\ 1 <= d /\ d <= DaysInMonth(y, m)

\* dt.strftime("%Y-%m-%d")
FormatDate(y, m, d) == ZeroPad(y, 4) \o "-" \o ZeroPad(m, 2) \o "-" \o ZeroPad(d, 2)

MinYear == 2010
MaxYear == 2035
IsoDateConfidence == 950000
MdyDateConfidence == 850000

\* the year range the MM/DD/YYYY branch accepts
MdyYearOk(y) == MinYear <= y /\ y <= MaxYear

\* datetime(yy, mm, dd) of one MM/DD/YYYY match, when it is a date of the range
MdyDate(yy, mm, dd) ==
    IF ValidDate(yy, mm, dd) /\ MdyYearOk(yy)
    THEN [date |-> FormatDate(yy, mm, dd), conf |-> MdyDateConfidence]
    ELSE NoneRec

\* a two-digit year is read as 20yy
FullYear(y0) == ParseInt(IF Len(y0) = 2 THEN "20" \o y0 ELSE y0)

RECURSIVE FirstMdy(_, _, _)
RECURSIVE FirstMdyOr(_, _, _, _)
FirstMdy(text, ms, j) ==
    IF j > Len(ms) THEN [date |-> "", conf |-> 0]
    ELSE FirstMdyOr(text, ms, j,
                    MdyDate(FullYear(Group(text, ms[j], 3)),
                            ParseInt(Group(text, ms[j], 1)),
                            ParseInt(Group(text, ms[j], 2))))

FirstMdyOr(text, ms, j, hit) ==
    IF hit # NoneRec THEN hit ELSE FirstMdy(text, ms, j + 1)

\* the YYYY-MM-DD branch: any year the pattern matches (20yy) is accepted
IsoDate(y, mo, d) ==
    IF ValidDate(y, mo, d)
    THEN [date |-> FormatDate(y, mo, d), conf |-> IsoDateConfidence]
    ELSE NoneRec

IsoDateOf(raw, m) ==
    IF m = NoneRec THEN NoneRec
    ELSE IsoDate(ParseInt(Group(raw, m, 1)), ParseInt(Group(raw, m, 2)),
                 ParseInt(Group(raw, m, 3)))

DateOr(iso, raw) ==
    IF iso # NoneRec THEN iso ELSE FirstMdy(raw, FindIter(DATE_MDY_RE, raw), 1)

extract_date(raw) == DateOr(IsoDateOf(raw, SearchFrom(DATE_YMD_RE, raw, 1)), raw)

(***************************************************************************)
(* src/src/parse.py: amount extraction                                     *)
(***************************************************************************)
\* the spans of one pattern whose value _parse_money_val accepts, as
\* [v |-> cents, s |-> start, e |-> end]; int_only drops tokens of 5 digits
\* or more ("avoid years / long ids")
SpanOf(m, v, skip) ==
    IF ~skip /\ v # NoVal THEN <<[v |-> v, s |-> m.s, e |-> m.e]>> ELSE <<>>

SpanOfToken(m, tok, int_only) ==
    SpanOf(m, parse_money_val(tok), int_only /\ Len(KeepOnly(tok, DigitSet)) >= 5)

RECURSIVE MoneySpansOf(_, _, _, _)
MoneySpansOf(line, ms, j, int_only) ==
    IF j > Len(ms) THEN <<>>
    ELSE SpanOfToken(ms[j], Group(line, ms[j], 1), int_only)
         \o MoneySpansOf(line, ms, j + 1, int_only)

\* the two-decimal spans, or the whole-number spans when there are none
SpansOr(spans, line) ==
    IF spans # <<>> THEN spans
    ELSE MoneySpansOf(line, FindIter(MONEY_INT_RE, line), 1, TRUE)

extract_money_spans(line) ==
    SpansOr(MoneySpansOf(line, FindIter(MONEY_2DP_RE, line), 1, FALSE), line)

is_excluded_amount_line(line) == ContainsAny(parse_norm(line), EXCLUDE_AMOUNT_KEYS)

\* spans sorted by (start, end): the last one
Rightmost(spans) ==
    spans[CHOOSE j \in 1..Len(spans) :
              \A k \in 1..Len(spans) :
                  \/ spans[k].s < spans[j].s
                  \/ spans[k].s = spans[j].s /\ spans[k].e <= spans[j].e]

RightmostValue(spans) == IF spans = <<>> THEN NoVal ELSE Rightmost(spans).v

\* the value of the rightmost span, or None
pick_best_value_from_line(line) == RightmostValue(extract_money_spans(line))

LineScore(low, has_currency, unit_trap, idx, n) ==
    (IF n > 1 THEN (400000 * idx) \div (n - 1) ELSE 0)
    + (IF ContainsAny(low, TOTAL_KEYS_STRONG) THEN 1300000
       ELSE IF ContainsAny(low, TOTAL_KEYS_WEAK) THEN 550000 ELSE 0)
    + (IF has_currency THEN 1100000 ELSE 0 - 250000)
    - (IF unit_trap THEN (IF ~has_currency THEN 1400000 ELSE 400000) ELSE 0)
    + (IF IsSubstr("grand total", low) THEN 500000 ELSE 0)
    + (IF IsSubstr("amount", low) THEN 350000 ELSE 0)
    - (IF IsSubstr("/gal", low) \/ IsSubstr("per gal", low)
          \/ IsSubstr("price/gal", low) THEN 250000 ELSE 0)

\* the score of one candidate line, idx of n (from 0)
amount_line_score(ln, idx, n) ==
    LineScore(parse_norm(ln), line_has_currency_marker(ln), line_has_unit_trap(ln),
              idx, n)

\* one line of the search window: a candidate when it has a value
CandidateOf(ln, val, idx, n) ==
    IF parse_norm(ln) # "" /\ ~is_excluded_amount_line(ln) /\ val # NoVal
    THEN <<[s |-> amount_line_score(ln, idx, n), v |-> val, ln |-> ln]>>
    ELSE <<>>

RECURSIVE AmountCandidates(_, _)
AmountCandidates(search_lines, j) ==
    IF j > Len(search_lines) THEN <<>>
    ELSE CandidateOf(search_lines[j], pick_best_value_from_line(search_lines[j]),
                     j - 1, Len(search_lines))
         \o AmountCandidates(search_lines, j + 1)

amount_confidence(best_score) ==
    IF best_score >= 2200000 THEN 950000
    ELSE IF best_score >= 1600000 THEN 880000
    ELSE IF best_score >= 1100000 THEN 780000
    ELSE 680000

FallbackConfidence == 600000
LastResortConfidence == 500000

SpanValues(sp) == [k \in 1..Len(sp) |-> sp[k].v]

\* fallback: lines that are not excluded and are not a unit line without a
\* currency marker
KeepFallback(ln) ==
    /\ ~is_excluded_amount_line(ln)
    /\ ~(line_has_unit_trap(ln) /\ ~line_has_currency_marker(ln))

\* a last resort that takes any value anywhere
KeepAnyLine(ln) == Len(ln) >= 0

\* last resort: lines that are not excluded
KeepLast(ln) == ~is_excluded_amount_line(ln)

\* the values of the spans of the lines the fallback loop, or else the
\* last-resort loop, keeps, in order
RECURSIVE ValuesOf(_, _, _)
ValuesOf(fallback, lines, j) ==
    IF j > Len(lines) THEN <<>>
    ELSE (IF (IF fallback THEN KeepFallback(lines[j]) ELSE KeepLast(lines[j]))
          THEN SpanValues(extract_money_spans(lines[j])) ELSE <<>>)
         \o ValuesOf(fallback, lines, j + 1)

MaxOf(q) == CHOOSE v \in SeqToSet(q) : \A w \in SeqToSet(q) : w <= v

LastResort(all_vals) ==
    IF all_vals # <<>>
    THEN [amount |-> MaxOf(all_vals), conf |-> LastResortConfidence]
    ELSE [amount |-> 0, conf |-> 0]

Fallback(fallback_vals, lines) ==
    IF fallback_vals # <<>>
    THEN [amount |-> MaxOf(fallback_vals), conf |-> FallbackConfidence]
    ELSE LastResort(ValuesOf(FALSE, lines, 1))

\* candidates is the scored lines of the search window, best first
BestAmount(candidates, search_lines, lines) ==
    IF candidates # <<>>
    THEN [amount |-> candidates[1].v, conf |-> amount_confidence(candidates[1].s)]
    ELSE Fallback(ValuesOf(TRUE, search_lines, 1), lines)

\* the candidates taken in the order of the lines, the sort left out
AmountInWindowUnsorted(search_lines, lines) ==
    BestAmount(AmountCandidates(search_lines, 1), search_lines, lines)

AmountInWindow(search_lines, lines) ==
    BestAmount(SortDesc(AmountCandidates(search_lines, 1)), search_lines, lines)

\* a long receipt is searched in its bottom half
AmountOfLines(lines, n) ==
    IF lines = <<>> THEN [amount |-> 0, conf |-> 0]
    ELSE AmountInWindow(SubSeq(lines, (IF n >= 10 THEN n \div 2 ELSE 0) + 1, n), lines)

LinesAmount(lines) == AmountOfLines(lines, Len(lines))

extract_amount(raw) == LinesAmount(CleanLines(raw))

(***************************************************************************)
(* src/src/parse.py: extract_fields                                        *)
(***************************************************************************)
\* round(0.45 * vconf + 0.35 * acon + 0.20 * dconf, 3): the nearest
\* thousandth.  When the exact sum ends in a half-thousandth the float sum
\* lies a rounding error to one side of it, and tie_up tells which.
RoundThousandth(x, tie_up) ==
    IF x % 1000 > 500 \/ (x % 1000 = 500 /\ tie_up)
    THEN (x \div 1000) * 1000 + 1000 ELSE (x \div 1000) * 1000

\* the weights of the vendor and of the amount taken for each other
parse_confidence_swapped(vconf, acon, dconf, tie_up) ==
    RoundThousandth((35 * vconf + 45 * acon + 20 * dconf) \div 100, tie_up)

parse_confidence(vconf, acon, dconf, tie_up) ==
    RoundThousandth((45 * vconf + 35 * acon + 20 * dconf) \div 100, tie_up)

FieldsFrom(v, d, a, tie_up) ==
    [vendor |-> v.vendor,
     date |-> d.date,
     amount |-> a.amount,
     vendor_candidates |-> v.cands,
     vendor_confidence |-> v.conf,
     date_confidence |-> d.conf,
     amount_confidence |-> a.conf,
     parse_confidence |-> parse_confidence(v.conf, a.conf, d.conf, tie_up)]

\* the results the two ways of rounding a tie give: one result when the sum
\* is no tie
TieChoices(v, d, a) == {FieldsFrom(v, d, a, tie_up) : tie_up \in BOOLEAN}

\* extract_fields: the set of the results it can return for a text
extract_fields(raw) ==
    TieChoices(extract_vendor(raw), extract_date(raw), extract_amount(raw))

(***************************************************************************)
(* String order: Python compares str by code point; the printable ASCII    *)
(* characters in code-point order (the grave accent is left out).          *)
(***************************************************************************)
AsciiChars ==
    " !\"#$%&'()*+,-./0123456789:;<=>?@" \o UpperChars \o "[\\]^_" \o LowerChars \o "{|}~"

\* the rank of a character in code-point order, a line break first
Ord(c) == IF c = NL THEN 0 ELSE CHOOSE i \in 1..Len(AsciiChars) : Ch(AsciiChars, i) = c

\* a < b
RECURSIVE StrLess(_, _)
StrLess(a, b) ==
    IF b = "" THEN FALSE
    ELSE IF a = "" THEN TRUE
    ELSE IF Head(a) = Head(b) THEN StrLess(Tail(a), Tail(b))
    ELSE Ord(Head(a)) < Ord(Head(b))

\* min(S)
Least(S) == CHOOSE x \in S : \A y \in S \ {x} : StrLess(x, y)

\* sorted(S) for a set of strings
RECURSIVE SortedStrings(_)
RECURSIVE LeastFirst(_, _)
SortedStrings(S) == IF S = {} THEN <<>> ELSE LeastFirst(S, Least(S))

LeastFirst(S, m) == <<m>> \o SortedStrings(S \ {m})

(***************************************************************************)
(* src/src/memory.py                                                       *)
(***************************************************************************)
\* memory.json before the first save
MissingFile == [missing |-> TRUE]

\* {"vendor_map": {}, "jobs": []}
DefaultMemory == [vendor_map |-> EmptyDict, jobs |-> <<>>]

\* load_memory: the saved dict, or the default when the file is missing or
\* reading or decoding it raises (readable = FALSE)
load_memory(file, readable) ==
    IF file = MissingFile THEN DefaultMemory
    ELSE IF ~readable THEN DefaultMemory
    ELSE file

\* save_memory: the file holds json.dumps(mem), which json.loads reads back
\* as the same dict of str keys, str values and lists of str
save_memory(mem) == mem

\* _norm_vendor
norm_vendor(v) ==
    Join(SplitWs(KeepOnly(Lower(Strip(v)), AlnumSet \cup {" ", "-"})), " ")

\* vm[v] = {"category": category or "Other", "account_code": account_code or ""}
SetMapping(mem, v, category, account_code) ==
    IF v = "" THEN mem
    ELSE DictSet(mem, "vendor_map",
             DictSet(DictGet(mem, "vendor_map", EmptyDict), v,
                 [category |-> IF Truthy(category) THEN category ELSE "Other",
                  account_code |-> IF Truthy(account_code) THEN account_code ELSE ""]))

\* remember_vendor_mapping: mem after the call
remember_vendor_mapping(mem, vendor, category, account_code) ==
    SetMapping(mem, norm_vendor(vendor), category, account_code)

\* get_vendor_mapping
get_vendor_mapping(mem, vendor) ==
    DictGet(DictGet(mem, "vendor_map", EmptyDict), norm_vendor(vendor), NoneRec)

\* jobs is mem.setdefault("jobs", []), j the stripped job
AddJob(mem, j, jobs) ==
    IF j = "" THEN mem
    ELSE IF j \in SeqToSet(jobs) THEN DictSet(mem, "jobs", jobs)
    ELSE DictSet(mem, "jobs", SortedStrings(SeqToSet(jobs) \cup {j}))

\* remember_job: mem after the call
remember_job(mem, job) == AddJob(mem, Strip(job), DictGet(mem, "jobs", <<>>))

\* get_known_jobs
get_known_jobs(mem) ==
    SortedStrings({j \in SeqToSet(DictGet(mem, "jobs", <<>>)) : Strip(j) # ""})

(***************************************************************************)
(* src/src/storage.py: transactions.csv is the sequence of its rows; a row *)
(* is a dict of the columns the flows read or write.  A timestamp is the   *)
(* clock's reading, NoTime where the column is "".                        *)
(***************************************************************************)
NoTime == 0

\* f"{x:.2f}" read back by float(): a confidence to the nearest hundredth
Round2(x) == ((x + 5000) \div 10000) * 10000

\* _backfill_row: "Ensure created_at exists for sorting"
backfill_row(row) ==
    IF row.created_at = NoTime
    THEN [row EXCEPT !.created_at =
              IF row.updated_at # NoTime THEN row.updated_at ELSE row.approved_at]
    ELSE row

\* the sort key (date, created_at) of a is greater than that of b
KeyGreater(a, b) ==
    \/ StrLess(b.date, a.date)
    \/ a.date = b.date /\ a.created_at > b.created_at

\* the first row whose key no other row's key exceeds
Newest(rs) ==
    CHOOSE j \in 1..Len(rs) :
        /\ \A k \in 1..Len(rs) : ~KeyGreater(rs[k], rs[j])
        /\ \A k \in 1..(j - 1) : KeyGreater(rs[j], rs[k])

\* rows.sort(key=..., reverse=True): stable, largest key first
RECURSIVE SortNewestFirst(_)
RECURSIVE NewestThen(_, _)
SortNewestFirst(rs) == IF rs = <<>> THEN <<>> ELSE NewestThen(rs, Newest(rs))

NewestThen(rs, j) ==
    <<rs[j]>> \o SortNewestFirst(SubSeq(rs, 1, j - 1) \o SubSeq(rs, j + 1, Len(rs)))

\* _read_all
read_all(file) == SortNewestFirst([j \in 1..Len(file) |-> backfill_row(file[j])])

\* _write_all: the file after the write
write_all(rs) ==
    [j \in 1..Len(rs) |->
        [backfill_row(rs[j]) EXCEPT !.confidence = Round2(@)]]

\* list_txns
list_txns(file, include_deleted, only_deleted) ==
    IF only_deleted THEN SelectSeq(read_all(file), LAMBDA r : r.deleted = 1)
    ELSE IF include_deleted THEN read_all(file)
    ELSE SelectSeq(read_all(file), LAMBDA r : r.deleted = 0)

AddTxnThreshold == 750000

\* add_txn, line 164
add_txn_needs_review(vendor, date, amount, confidence) ==
    IF \/ confidence < AddTxnThreshold
       \/ Strip(vendor) = ""
       \/ Strip(date) = ""
       \/ amount <= 0
    THEN 1 ELSE 0

\* the row add_txn builds; txn_id and t stand for uuid4() and _now()
new_row(txn_id, t, date, vendor, amount, category, account_code, confidence, job) ==
    backfill_row(
        [id |-> txn_id,
         date |-> Strip(date),
         vendor |-> Strip(vendor),
         amount |-> amount,
         category |-> Strip(IF Truthy(category) THEN category ELSE "Other"),
         account_code |-> Strip(account_code),
         job |-> Strip(job),
         confidence |-> confidence,
         needs_review |-> add_txn_needs_review(vendor, date, amount, confidence),
         created_at |-> t,
         updated_at |-> NoTime,
         approved_at |-> NoTime,
         deleted |-> 0,
         deleted_at |-> NoTime])

\* add_txn: the file after the call
add_txn(file, txn_id, t, date, vendor, amount, category, account_code, confidence, job) ==
    write_all(Append(read_all(file),
        new_row(txn_id, t, date, vendor, amount, category, account_code,
                confidence, job)))

UpdateTxnThreshold == 750000

\* update_txn, "Recompute needs_review"
update_txn_needs_review(r) ==
    IF \/ r.confidence < UpdateTxnThreshold
       \/ r.vendor = ""
       \/ r.date = ""
       \/ r.amount <= 0
    THEN 1 ELSE 0

\* r.update(patch)
patched(r, patch) == [k \in DOMAIN r |-> IF k \in DOMAIN patch THEN patch[k] ELSE r[k]]

\* "if created_at missing, fill it"
fill_created(q) == IF q.created_at = NoTime THEN [q EXCEPT !.created_at = q.updated_at] ELSE q

\* what update_txn does to the row it found: whatever the patch says of
\* needs_review and updated_at, both are set anew
recomputed(p, t) ==
    fill_created([p EXCEPT !.needs_review = update_txn_needs_review(p), !.updated_at = t])

updated_row(r, patch, t) == recomputed(backfill_row(patched(r, patch)), t)

\* the first row with the id, 0 when there is none
first_with_id(rs, txn_id) ==
    IF \E j \in 1..Len(rs) : rs[j].id = txn_id
    THEN CHOOSE j \in 1..Len(rs) :
             rs[j].id = txn_id /\ \A k \in 1..(j - 1) : rs[k].id # txn_id
    ELSE 0

update_row_at(rs, hit, patch, t) ==
    [j \in 1..Len(rs) |-> IF j = hit THEN updated_row(rs[j], patch, t) ELSE rs[j]]

update_rows(rs, txn_id, patch, t) ==
    write_all(update_row_at(rs, first_with_id(rs, txn_id), patch, t))

\* update_txn: the file after the call
update_txn(file, txn_id, patch, t) == update_rows(read_all(file), txn_id, patch, t)

\* the first row with the id and the deleted flag, 0 when there is none
first_flagged(rs, txn_id, flag) ==
    IF \E j \in 1..Len(rs) : rs[j].id = txn_id /\ rs[j].deleted = flag
    THEN CHOOSE j \in 1..Len(rs) :
             /\ rs[j].id = txn_id /\ rs[j].deleted = flag
             /\ \A k \in 1..(j - 1) : ~(rs[k].id = txn_id /\ rs[k].deleted = flag)
    ELSE 0

\* what soft_delete_txn does to the row it found
soft_deleted_row(r, t) == [r EXCEPT !.deleted = 1, !.deleted_at = t, !.updated_at = t]

\* rs is _read_all(ws_dir)
soft_delete_rows(rs, txn_id, t) ==
    write_all([j \in 1..Len(rs) |->
        IF j = first_flagged(rs, txn_id, 0) THEN soft_deleted_row(rs[j], t) ELSE rs[j]])

\* soft_delete_txn: the file after the call
soft_delete_txn(file, txn_id, t) == soft_delete_rows(read_all(file), txn_id, t)

\* a restore that sends the row back to review
restored_row_for_review(r, t) ==
    [r EXCEPT !.deleted = 0, !.deleted_at = NoTime, !.updated_at = t, !.needs_review = 1]

\* what undo_delete_txn does to the row it found
restored_row(r, t) == [r EXCEPT !.deleted = 0, !.deleted_at = NoTime, !.updated_at = t]

\* rs is _read_all(ws_dir)
undo_delete_rows(rs, txn_id, t) ==
    write_all([j \in 1..Len(rs) |->
        IF j = first_flagged(rs, txn_id, 1) THEN restored_row(rs[j], t) ELSE rs[j]])

\* undo_delete_txn: the file after the call
undo_delete_txn(file, txn_id, t) == undo_delete_rows(read_all(file), txn_id, t)

\* a purge that does not look at the deleted flag
kept_not_named(rs, txn_id) == SelectSeq(rs, LAMBDA r : r.id # txn_id)

\* the rows purge_deleted_txn keeps
kept(rs, txn_id) == SelectSeq(rs, LAMBDA r : ~(r.id = txn_id /\ r.deleted = 1))

\* purge_deleted_txn: the file after the call; the receipt image the row
\* points at is unlinked and is not part of the model
purge_deleted_txn(file, txn_id) == write_all(kept(read_all(file), txn_id))

(***************************************************************************)
(* src/app.py                                                              *)
(***************************************************************************)
\* COA: category -> account code
COA == [c \in SeqToSet(CATEGORIES) |->
           CASE c = "Fuel" -> "6100"
             [] c = "Meals" -> "6200"
             [] c = "Materials / Supplies" -> "6300"
             [] c = "Tools & Equipment" -> "6400"
             [] c = "Vehicle Maintenance" -> "6500"
             [] c = "Office / Admin" -> "6600"
             [] c = "Subcontractors" -> "6700"
             [] c = "Permits / Fees" -> "6800"
             [] OTHER -> "6999"]

\* coa_for_category(cat)[0]
coa_for_category(cat) == IF cat \in DOMAIN COA THEN COA[cat] ELSE COA["Other"]

NeedsReviewThreshold == 720000

\* _needs_review
needs_review(vendor, date, amount, confidence) ==
    IF ~(Strip(vendor) # "" /\ Strip(date) # "" /\ amount > 0) THEN 1
    ELSE IF confidence < NeedsReviewThreshold THEN 1
    ELSE 0

(***************************************************************************)
(* Inputs                                                                  *)
(***************************************************************************)
\* the lines a receipt's OCR text is made of, in the order a receipt has
\* them: the vendor, the date, the amounts
Corpus == <<"SHELL OIL", "Acme Co", "joe's cafe", "2024-03-14", "2005-03-14",
            "12/25/2036", "03/14/2024", "TOTAL $38.72", "Total 0.00",
            "UNLEADED 12.404 GAL">>

MaxLines == 3

\* a line before the lines of a text
LineThen(ln, t) == IF t = "" THEN ln ELSE ln \o NL \o t

\* the texts of at most n lines of the corpus from its k-th line on, in the
\* order of the corpus
RECURSIVE TextsFrom(_, _)
TextsFrom(k, n) ==
    IF n = 0 \/ k > Len(Corpus) THEN {""}
    ELSE TextsFrom(k + 1, n)
         \cup {LineThen(Corpus[k], t) : t \in TextsFrom(k + 1, n - 1)}

Texts == TextsFrom(1, MaxLines)

\* the texts handed to categorize next to a vendor of VendorInputs: a fuel
\* station (a vendor rule), a name no rule knows, a cafe (a keyword), nothing
CatTexts == {"", Corpus[1], Corpus[2], Corpus[3]}

\* vendor strings as typed or extracted: two spellings of one vendor, a
\* vendor a rule knows, and the empty string
VendorInputs == {"Acme Co", "ACME CO.", "Shell", ""}

\* (category, account_code) pairs handed to remember_vendor_mapping
Mappings == {<<"Fuel", "6100">>, <<"Meals", "6200">>, <<"", "">>}

JobInputs == {"", "Job 7"}

\* memories a workspace can hold when categorize is called: the default, one
\* with a vendor_map entry, and two of the vendor_mappings shape
MemorySamples ==
    {DefaultMemory,
     remember_vendor_mapping(DefaultMemory, "Acme Co", "Fuel", "6100"),
     [vendor_mappings |-> <<[vendor |-> "Joe's Cafe", category |-> "Meals"]>>],
     [vendor_mappings |-> <<[vendor |-> "Shell", category |-> "Meals"]>>]}

\* what a caller hands to the needs-review computations
ReviewVendors == {"", "  ", "Acme Co"}
ReviewDates == {"", "2024-03-14"}
ReviewAmounts == {0, 3872}
ReviewConfidences == {350000, 730000, 780000, 920000}

\* the receipts uploaded in the flow
FlowTexts == {"", Corpus[1] \o NL \o Corpus[8], Corpus[10] \o NL \o Corpus[4],
              Corpus[2] \o NL \o Corpus[9]}

\* what the user may type over the extracted vendor and date
TypedVendors == {"Acme Co"}
TypedDates == {"2024-03-14"}

\* the receipts saved in one run of the model
MaxRows == 2

(***************************************************************************)
(* States before anything has happened                                     *)
(***************************************************************************)
NoUpload ==
    /\ raw_text = ""
    /\ vendor_in = ""
    /\ fields = NoneRec
    /\ suggestion = NoneRec
    /\ form = NoneRec

\* a new workspace: no memory.json, an empty transactions.csv
NewWorkspace ==
    /\ MEM = DefaultMemory
    /\ memfile = MissingFile
    /\ persisted = {}
    /\ last_write = NoneRec
    /\ rows = <<>>
    /\ next_id = 1
    /\ now = 1

(***************************************************************************)
(* The functions as steps: each action applies one function of the source  *)
(* to the state.                                                           *)
(***************************************************************************)
\* fields = extract_fields(raw_text)
ExtractFields ==
    /\ pc = "text"
    /\ fields' \in extract_fields(raw_text)
    /\ pc' = "fields"
    /\ UNCHANGED <<raw_text, vendor_in, suggestion, form, MEM, memfile,
                   persisted, last_write, rows, next_id, now>>

\* suggestion = categorize(raw_text, vendor=v, memory=m)
Categorize(v, m) ==
    /\ suggestion' = categorize(raw_text, v, m)
    /\ vendor_in' = v
    /\ MEM' = m
    /\ pc' = "suggested"
    /\ UNCHANGED <<raw_text, fields, form, memfile, persisted, last_write,
                   rows, next_id, now>>

\* app.py: vendor0 = (fields.get("vendor") or "").strip(), then categorize
CategorizeExtracted ==
    /\ pc = "fields"
    /\ \E m \in MemorySamples : Categorize(Strip(fields.vendor), m)

\* categorize with a vendor of the caller's and the memory learnt so far
CategorizeVendor ==
    /\ pc = "learn"
    /\ \E v \in VendorInputs : Categorize(v, MEM)

\* the memory after a write, and the call that made it
Written(before, after, v, category, account_code) ==
    /\ MEM' = after
    /\ last_write' = [vendor |-> v, category |-> category,
                      account_code |-> account_code,
                      before |-> before, after |-> after]

\* remember_vendor_mapping(MEM, v, category, account_code)
RememberVendorMapping ==
    /\ pc \in {"learn", "memory"}
    /\ \E v \in VendorInputs, ca \in Mappings :
          Written(MEM, remember_vendor_mapping(MEM, v, ca[1], ca[2]), v, ca[1], ca[2])
    /\ UNCHANGED <<raw_text, vendor_in, fields, suggestion, form, memfile,
                   persisted, rows, next_id, now, pc>>

\* remember_job(MEM, job)
RememberJob ==
    /\ pc = "memory"
    /\ \E job \in JobInputs : MEM' = remember_job(MEM, job)
    /\ UNCHANGED <<raw_text, vendor_in, fields, suggestion, form, memfile,
                   persisted, last_write, rows, next_id, now, pc>>

\* MEM = load_memory(WS_DIR); reading the file may raise
LoadMemory ==
    /\ pc = "memory"
    /\ \E readable \in BOOLEAN : MEM' = load_memory(memfile, readable)
    /\ UNCHANGED <<raw_text, vendor_in, fields, suggestion, form, memfile,
                   persisted, last_write, rows, next_id, now, pc>>

\* the vendor keys of a memory
VendorKeys(mem) == DOMAIN DictGet(mem, "vendor_map", EmptyDict)

\* save_memory(WS_DIR, MEM)
SaveMemory ==
    /\ pc = "memory"
    /\ memfile' = save_memory(MEM)
    /\ persisted' = persisted \cup VendorKeys(MEM)
    /\ UNCHANGED <<raw_text, vendor_in, fields, suggestion, form, MEM,
                   last_write, rows, next_id, now, pc>>

(***************************************************************************)
(* extract_fields and categorize on every text                             *)
(***************************************************************************)
InitParse ==
    /\ raw_text \in Texts
    /\ vendor_in = ""
    /\ fields = NoneRec
    /\ suggestion = NoneRec
    /\ form = NoneRec
    /\ NewWorkspace
    /\ pc = "text"

NextParse == ExtractFields \/ CategorizeExtracted

SpecParse == InitParse /\ [][NextParse]_vars

(***************************************************************************)
(* the vendor memory as categorize sees it                                 *)
(***************************************************************************)
InitCat ==
    /\ raw_text \in CatTexts
    /\ vendor_in = ""
    /\ fields = NoneRec
    /\ suggestion = NoneRec
    /\ form = NoneRec
    /\ MEM \in MemorySamples
    /\ memfile = MissingFile
    /\ persisted = {}
    /\ last_write = NoneRec
    /\ rows = <<>>
    /\ next_id = 1
    /\ now = 1
    /\ pc = "learn"

NextCat == RememberVendorMapping \/ CategorizeVendor

SpecCat == InitCat /\ [][NextCat]_vars

(***************************************************************************)
(* the vendor memory and its file                                          *)
(***************************************************************************)
InitMem == NoUpload /\ NewWorkspace /\ pc = "memory"

NextMem == LoadMemory \/ RememberVendorMapping \/ RememberJob \/ SaveMemory

SpecMem == InitMem /\ [][NextMem]_vars

(***************************************************************************)
(* the needs-review decision where it is computed: a caller computes the   *)
(* flag as the upload form does, adds the receipt, then updates it with    *)
(* the same values                                                         *)
(***************************************************************************)
\* the stored row of an id
RowOf(file, txn_id) == file[CHOOSE j \in 1..Len(file) : file[j].id = txn_id]

\* app.py: needs_review_flag = _needs_review(vendor, date, amount, confidence0)
ComputeFlag ==
    /\ pc = "review"
    /\ \E v \in ReviewVendors, d \in ReviewDates, a \in ReviewAmounts,
          c \in ReviewConfidences :
          form' = [vendor |-> v, date |-> d, amount |-> a, confidence |-> c,
                   needs_review_flag |-> needs_review(v, d, a, c)]
    /\ pc' = "flagged"
    /\ UNCHANGED <<raw_text, vendor_in, fields, suggestion, MEM, memfile,
                   persisted, last_write, rows, next_id, now>>

\* add_txn(WS_DIR, date=..., vendor=..., amount=..., confidence=...)
AddTxn ==
    /\ pc = "flagged"
    /\ rows' = add_txn(rows, next_id, now, form.date, form.vendor, form.amount,
                       "Other", coa_for_category("Other"), form.confidence, "")
    /\ form' = [k \in DOMAIN form \cup {"saved_id"} |->
                   IF k = "saved_id" THEN next_id ELSE form[k]]
    /\ next_id' = next_id + 1
    /\ now' = now + 1
    /\ pc' = "added"
    /\ UNCHANGED <<raw_text, vendor_in, fields, suggestion, MEM, memfile,
                   persisted, last_write>>

\* update_txn(WS_DIR, id, {"vendor": ..., "date": ..., "amount": ...,
\* "confidence": ..., "needs_review": ...}), as the Approve button calls it
UpdateTxn ==
    /\ pc = "added"
    /\ rows' = update_txn(rows, form.saved_id,
                          [vendor |-> form.vendor, date |-> form.date,
                           amount |-> form.amount, confidence |-> form.confidence,
                           needs_review |-> form.needs_review_flag], now)
    /\ now' = now + 1
    /\ pc' = "updated"
    /\ UNCHANGED <<raw_text, vendor_in, fields, suggestion, form, MEM, memfile,
                   persisted, last_write, next_id>>

InitReview == NoUpload /\ NewWorkspace /\ pc = "review"

NextReview == ComputeFlag \/ AddTxn \/ UpdateTxn

SpecReview == InitReview /\ [][NextReview]_vars

(***************************************************************************)
(* src/app.py: the upload tab.  Every step is one run of the script: it    *)
(* loads the memory, extracts and categorizes the uploaded text, and runs  *)
(* the handler of the button that was pressed.                             *)
(***************************************************************************)
\* fields = extract_fields(raw_text) if raw_text else {...}
FormFields(t) ==
    IF t # "" THEN extract_fields(t)
    ELSE {[vendor |-> "", date |-> "", amount |-> 0]}

\* suggestion = categorize(raw_text, vendor=vendor0, memory=MEM) if raw_text else {...}
SuggestionOf(t, vendor0, mem) ==
    IF t # "" THEN categorize(t, vendor0, mem)
    ELSE [category |-> "Other", confidence |-> 0, reasons |-> <<>>]

\* one run of the script up to the form
ShowForm(t, mem, f) ==
    /\ raw_text' = t
    /\ MEM' = mem
    /\ fields' = f
    /\ vendor_in' = Strip(f.vendor)
    /\ suggestion' = SuggestionOf(t, Strip(f.vendor), mem)
    /\ form' = NoneRec
    /\ pc' = "form"
    /\ UNCHANGED <<memfile, persisted, last_write, rows, next_id, now>>

\* the user uploads a receipt
UploadReceipt ==
    /\ pc = "idle"
    /\ \E t \in FlowTexts, readable \in BOOLEAN :
          \E f \in FormFields(t) : ShowForm(t, load_memory(memfile, readable), f)

\* st.rerun() after a save: the script runs again with the same upload
Rerun ==
    /\ pc = "rerun"
    /\ \E readable \in BOOLEAN :
          ShowForm(raw_text, load_memory(memfile, readable), fields)

\* "Best-effort: immediately set needs_review": the patch goes to latest[-1]
PatchLast(file, latest, flag, t) ==
    IF latest # <<>>
    THEN update_txn(file, latest[Len(latest)].id,
                    [needs_review |-> flag, updated_at |-> t], t)
    ELSE file

post_save_update(file, flag, t) == PatchLast(file, list_txns(file, FALSE, FALSE), flag, t)

\* remember_vendor_mapping and save_memory at the end of the handler
Learn(before, after, vendor, category, account_code) ==
    /\ Written(before, after, vendor, category, account_code)
    /\ memfile' = save_memory(after)
    /\ persisted' = persisted \cup VendorKeys(after)

\* the handler of "Save receipt" with the values of the form
Store(mem, sugg, vendor, date, amount, category, account_code, job, flag) ==
    /\ rows' = post_save_update(
                   add_txn(rows, next_id, now, date, vendor, amount, category,
                           account_code, sugg.confidence, job),
                   flag, now)
    /\ Learn(IF job # "" THEN remember_job(mem, job) ELSE mem,
             remember_vendor_mapping(IF job # "" THEN remember_job(mem, job) ELSE mem,
                                     vendor, category, account_code),
             vendor, category, account_code)
    /\ suggestion' = sugg
    /\ form' = [vendor |-> vendor, date |-> date, amount |-> amount,
                category |-> category, confidence |-> sugg.confidence,
                parse_confidence |-> DictGet(fields, "parse_confidence", NoVal),
                needs_review_flag |-> flag, saved_id |-> next_id]
    /\ next_id' = next_id + 1
    /\ now' = now + 1
    /\ pc' = "rerun"
    /\ UNCHANGED <<raw_text, vendor_in, fields>>

\* the form as the user leaves it: the vendor and the date extracted or
\* typed, the category suggested
FillForm(mem, sugg) ==
    \E vendor \in {vendor_in} \cup TypedVendors,
       date \in {Strip(fields.date)} \cup TypedDates,
       job \in JobInputs :
        Store(mem, sugg, vendor, date, fields.amount, sugg.category,
              coa_for_category(sugg.category), job,
              needs_review(vendor, date, fields.amount, sugg.confidence))

\* the run of the script in which "Save receipt" is pressed
SaveReceipt ==
    /\ pc = "form"
    /\ Len(rows) < MaxRows
    /\ \E readable \in BOOLEAN :
          FillForm(load_memory(memfile, readable),
                   SuggestionOf(raw_text, vendor_in, load_memory(memfile, readable)))

Init == NoUpload /\ NewWorkspace /\ pc = "idle"

Next == UploadReceipt \/ Rerun \/ SaveReceipt

Spec == Init /\ [][Next]_vars

(***************************************************************************)
(* The notions the properties below are stated in                          *)
(***************************************************************************)
\* 1.0 in millionths
Unit == 1000 * 1000

IsConfidence(x) == 0 <= x /\ x <= Unit

\* the category vendor_map holds under the key categorize looks up, or None
MapCategory(mem, vendor) ==
    DictGet(DictGet(DictGet(mem, "vendor_map", EmptyDict),
                    categorize_norm(vendor), EmptyDict), "category", None)

\* the rows of vendor_mappings that name the vendor and have a category
ListRows(mem, vendor) ==
    SelectSeq(DictGet(mem, "vendor_mappings", <<>>),
              LAMBDA row : /\ categorize_norm(DictGet(row, "vendor", ""))
                                = categorize_norm(vendor)
                           /\ Truthy(DictGet(row, "category", None)))

\* the memory holds an entry with a category for the normalized vendor
HasEntry(mem, vendor) ==
    /\ categorize_norm(vendor) # ""
    /\ Truthy(MapCategory(mem, vendor)) \/ ListRows(mem, vendor) # <<>>

EntryCategory(mem, vendor) ==
    IF Truthy(MapCategory(mem, vendor)) THEN MapCategory(mem, vendor)
    ELSE ListRows(mem, vendor)[1].category

\* a vendor rule or a text rule matches the input categorize was given
RuleMatches == rule_suggest(raw_text, vendor_in) # NoneRec

\* the suggestion is a hit of the memory tier
IsMemoryHit(sugg) == sugg.confidence \in {MemoryConfidenceMap, MemoryConfidenceList}

(***************************************************************************)
(* C1                                                                      *)
(***************************************************************************)
\* C1 as stated: whenever the memory holds an entry with a category for the
\* normalized vendor, categorize returns the entry's category, even when a
\* vendor rule or a text rule matches the same input.
C1_MemoryBeforeRules ==
    (pc = "suggested" /\ HasEntry(MEM, vendor_in))
        => suggestion.category = EntryCategory(MEM, vendor_in)

\* C1 amended: the tiers are applied in the order rules, memory, keywords.
\* Whenever the memory holds an entry with a category for the normalized
\* vendor, categorize returns the entry's category unless a vendor rule or a
\* text rule matches the same input, and then it returns the rule's category.
C1_RulesBeforeMemory ==
    (pc = "suggested" /\ HasEntry(MEM, vendor_in))
        => suggestion.category =
               IF RuleMatches THEN rule_suggest(raw_text, vendor_in).category
               ELSE EntryCategory(MEM, vendor_in)

\* categorize was called with a memory entry for the vendor and no rule
\* matched: the entry decided the category
C1_Witness ==
    /\ pc = "suggested"
    /\ HasEntry(MEM, vendor_in)
    /\ ~RuleMatches
    /\ IsMemoryHit(suggestion)
    /\ suggestion.category = EntryCategory(MEM, vendor_in)

(***************************************************************************)
(* C2                                                                      *)
(***************************************************************************)
\* C2: after remember_vendor_mapping(mem, V, category, code), categorize with
\* a case or punctuation variant V' of V (the same vendor key on write) and
\* no rule matching is a memory hit that returns that category.
C2_SameKeyOnWriteAndLookup ==
    (/\ pc = "suggested"
     /\ last_write # NoneRec
     /\ last_write.after = MEM
     /\ norm_vendor(last_write.vendor) # ""
     /\ norm_vendor(vendor_in) = norm_vendor(last_write.vendor)
     /\ last_write.category # ""
     /\ ~RuleMatches)
        => (IsMemoryHit(suggestion) /\ suggestion.category = last_write.category)

(***************************************************************************)
(* C7                                                                      *)
(***************************************************************************)
\* C7: when the memory holds an entry with a category for the normalized
\* vendor, the confidence categorize returns is at least the confidence it
\* returns for the same text and vendor with no memory.
C7_MemoryPrecedence ==
    (pc = "suggested" /\ HasEntry(MEM, vendor_in))
        => suggestion.confidence >= categorize(raw_text, vendor_in, NoneRec).confidence

\* a memory entry raised the confidence above that of the keyword tier
C7_Witness ==
    /\ pc = "suggested"
    /\ HasEntry(MEM, vendor_in)
    /\ IsMemoryHit(suggestion)
    /\ suggestion.confidence > categorize(raw_text, vendor_in, NoneRec).confidence

(***************************************************************************)
(* C3, C4                                                                  *)
(***************************************************************************)
\* C3: the needs-review decision is the same wherever it is computed: the
\* flag add_txn stores, and the flag update_txn recomputes, for a vendor,
\* date, amount and confidence is the flag _needs_review gives for them.
C3_NeedsReviewConsistent ==
    pc \in {"added", "updated"}
        => RowOf(rows, form.saved_id).needs_review = form.needs_review_flag

\* C4: a saved receipt whose parse confidence is below the threshold is
\* stored as needing review, also when its categorization confidence is high
\* and vendor, date and amount are filled.
C4_LowParseConfidenceFlagged ==
    (/\ pc = "rerun"
     /\ form.parse_confidence # NoVal
     /\ form.parse_confidence < NeedsReviewThreshold)
        => RowOf(rows, form.saved_id).needs_review = 1

(***************************************************************************)
(* C5, C6, C10                                                             *)
(***************************************************************************)
\* C5: every confidence extract_fields returns (vendor, date, amount, parse)
\* and the confidence categorize returns lie in [0.0, 1.0].
C5_ConfidenceBounds ==
    /\ fields # NoneRec
          => /\ IsConfidence(fields.vendor_confidence)
             /\ IsConfidence(fields.date_confidence)
             /\ IsConfidence(fields.amount_confidence)
             /\ IsConfidence(fields.parse_confidence)
    /\ suggestion # NoneRec => IsConfidence(suggestion.confidence)

\* a text was extracted and categorized, and the vendor's score was above
\* what vendor_confidence lets through
C5_Witness ==
    /\ pc = "suggested"
    /\ fields.vendor # ""
    /\ vendor_score(fields.vendor) + 100000 > Unit
    /\ fields.vendor_confidence = MaxVendorConfidence
    /\ fields.amount_confidence > 0
    /\ suggestion.confidence > 0

\* C6: in every extraction result an empty field carries confidence 0.0.
C6_EmptyFieldZeroConfidence ==
    fields # NoneRec
        => /\ fields.vendor = "" => fields.vendor_confidence = 0
           /\ fields.date = "" => fields.date_confidence = 0
           /\ fields.amount = 0 => fields.amount_confidence = 0

\* the year of a date YYYY-MM-DD
YearOf(date) == ParseInt(SubSeq(date, 1, 4))
MonthOf(date) == ParseInt(SubSeq(date, 6, 7))
DayOf(date) == ParseInt(SubSeq(date, 9, 10))

\* C10: the date extract_date returns is "" or a calendar date YYYY-MM-DD
\* with 2010 <= YYYY <= 2035, whichever pattern produced it.
C10_YearInRange ==
    (fields # NoneRec /\ fields.date # "")
        => /\ Len(fields.date) = 10
           /\ ValidDate(YearOf(fields.date), MonthOf(fields.date), DayOf(fields.date))
           /\ MinYear <= YearOf(fields.date)
           /\ YearOf(fields.date) <= MaxYear

(***************************************************************************)
(* C8, C9                                                                  *)
(***************************************************************************)
\* the vendor_map of a memory
VendorMap(mem) == DictGet(mem, "vendor_map", EmptyDict)

\* the observation count a write leaves: 1 for a new key, one more than
\* before for a key the memory has
CountAfter(before, key) ==
    IF key \in VendorKeys(before) /\ "count" \in DOMAIN VendorMap(before)[key]
    THEN VendorMap(before)[key]["count"] + 1
    ELSE 1

\* C8: after remember_vendor_mapping for a vendor, the entry under its
\* normalized key holds the supplied category and account code, its
\* observation count is 1 for a new key or one more than before, and the
\* entries under other keys are unchanged.
C8_LastWriteWinsAndCounted ==
    (/\ last_write # NoneRec
     /\ norm_vendor(last_write.vendor) # ""
     /\ last_write.category # "")
        => /\ norm_vendor(last_write.vendor) \in VendorKeys(last_write.after)
           /\ VendorMap(last_write.after)[norm_vendor(last_write.vendor)]["category"]
                  = last_write.category
           /\ VendorMap(last_write.after)[norm_vendor(last_write.vendor)]["account_code"]
                  = last_write.account_code
           /\ "count" \in DOMAIN VendorMap(last_write.after)[norm_vendor(last_write.vendor)]
           /\ VendorMap(last_write.after)[norm_vendor(last_write.vendor)]["count"]
                  = CountAfter(last_write.before, norm_vendor(last_write.vendor))
           /\ \A k \in VendorKeys(last_write.before) \ {norm_vendor(last_write.vendor)} :
                  /\ k \in VendorKeys(last_write.after)
                  /\ VendorMap(last_write.after)[k] = VendorMap(last_write.before)[k]

\* C9: every vendor key that was persisted earlier is still in the persisted
\* memory, whatever loads, writes and saves followed.
C9_NeverDeleted ==
    persisted \subseteq (IF memfile = MissingFile THEN {} ELSE VendorKeys(memfile))

(***************************************************************************)
(* extract_fields and categorize on texts of date lines                    *)
(***************************************************************************)
\* a date of no month, a vendor, a dotted date, a date with the month's
\* name, a date of no day, a slash date and an ISO date
DateCorpus == <<"2024-13-45", "Acme Co", "14.03.2024", "March 14, 2024",
                "2024/02/30", "03/14/2024", "2024-03-14">>

MaxDateLines == 3

\* the texts of at most n lines of a corpus from its k-th line on, in the
\* order of the corpus
RECURSIVE Subtexts(_, _, _)
Subtexts(corpus, k, n) ==
    IF n = 0 \/ k > Len(corpus) THEN {""}
    ELSE Subtexts(corpus, k + 1, n)
         \cup {LineThen(corpus[k], t) : t \in Subtexts(corpus, k + 1, n - 1)}

DateTexts == Subtexts(DateCorpus, 1, MaxDateLines)

\* a text is there to be extracted, in a new workspace
TextUploaded ==
    /\ vendor_in = ""
    /\ fields = NoneRec
    /\ suggestion = NoneRec
    /\ form = NoneRec
    /\ NewWorkspace
    /\ pc = "text"

InitDate == raw_text \in DateTexts /\ TextUploaded

SpecDate == InitDate /\ [][NextParse]_vars

(***************************************************************************)
(* C11                                                                     *)
(***************************************************************************)
\* the YYYY-MM-DD tokens of a text that are calendar dates, in order
RECURSIVE ValidIsoFrom(_, _, _)
ValidIsoFrom(raw, ms, j) ==
    IF j > Len(ms) THEN <<>>
    ELSE (IF IsoDateOf(raw, ms[j]) # NoneRec THEN <<IsoDateOf(raw, ms[j])>> ELSE <<>>)
         \o ValidIsoFrom(raw, ms, j + 1)

ValidIsoDates(raw) == ValidIsoFrom(raw, FindIter(DATE_YMD_RE, raw), 1)

\* C11: extract_date returns the first match of the first format, in the
\* order ISO, slash/dash, dotted, month-name, that validates; stated here for
\* the format of highest priority: a text with an ISO token that is a
\* calendar date yields the first such token at the ISO confidence, also
\* when an ISO-shaped token that is no date comes before it.
C11_FirstValidatedDate ==
    (fields # NoneRec /\ ValidIsoDates(raw_text) # <<>>)
        => /\ fields.date = ValidIsoDates(raw_text)[1].date
           /\ fields.date_confidence = IsoDateConfidence

(***************************************************************************)
(* C12                                                                     *)
(***************************************************************************)
\* a money value the matcher may return: positive and at most 99,999
PlausibleMoney(v) == 0 < v /\ v <= MaxMoneyCents

\* every span _extract_money_spans returns for a line has such a value
PlausibleSpans(spans) == \A k \in 1..Len(spans) : PlausibleMoney(spans[k].v)

\* C12: no value <= 0 and no value > 99999 is in the spans
\* _extract_money_spans returns for a line of the text, and none is the
\* amount extract_amount returns with a non-zero confidence.
C12_MoneyValuesPlausible ==
    fields # NoneRec
        => /\ \A j \in 1..Len(CleanLines(raw_text)) :
                  PlausibleSpans(extract_money_spans(CleanLines(raw_text)[j]))
           /\ fields.amount_confidence > 0 => PlausibleMoney(fields.amount)

(***************************************************************************)
(* extract_fields and categorize on texts of amount lines                  *)
(***************************************************************************)
\* a quantity, a subtotal, a tax, a total without and with a currency
\* marker, a total on the line of the card, and a total of another magnitude
AmountCorpus == <<"Gallons: 12.404", "Subtotal: 30.74", "Tax: 1.85",
                  "Total: 32.59", "Total: $38.72", "Total: $41.10 VISA",
                  "Total: $3259.00">>

MaxAmountLines == 3

\* a receipt long enough to be searched in its bottom half only
LongReceiptLines == 10

\* a text followed by n lines that carry no number
RECURSIVE Padded(_, _)
Padded(t, n) == IF n = 0 THEN t ELSE Padded(t \o NL \o "ok", n - 1)

\* long receipts whose amounts are above the bottom half: a subtotal alone,
\* a total alone, and a total next to a larger total on the line of the card
LongReceipts ==
    {Padded(AmountCorpus[2], LongReceiptLines - 1),
     Padded(AmountCorpus[5], LongReceiptLines - 1),
     Padded(AmountCorpus[5] \o NL \o AmountCorpus[6], LongReceiptLines - 1)}

AmountTexts == Subtexts(AmountCorpus, 1, MaxAmountLines) \cup LongReceipts

InitAmount == raw_text \in AmountTexts /\ TextUploaded

SpecAmount == InitAmount /\ [][NextParse]_vars

(***************************************************************************)
(* C13, C14                                                                *)
(***************************************************************************)
\* the lines of the receipt as extract_amount reads them
ReceiptLines == CleanLines(raw_text)

IsSubtotalLine(ln) == IsSubstr("subtotal", parse_norm(ln))

IsTaxLine(ln) == IsSubstr("tax", parse_norm(ln)) /\ ~IsSubtotalLine(ln)

\* a total-labelled line
IsTotalLine(ln) ==
    /\ ContainsAny(parse_norm(ln), TOTAL_KEYS_STRONG)
    /\ ~IsSubtotalLine(ln)
    /\ ~IsTaxLine(ln)

\* a line that carries a money value
HasValue(ln) == pick_best_value_from_line(ln) # NoVal

\* lines i and j are a subtotal and a tax that give a reference value
IsReference(i, j) ==
    /\ IsSubtotalLine(ReceiptLines[i]) /\ HasValue(ReceiptLines[i])
    /\ IsTaxLine(ReceiptLines[j]) /\ HasValue(ReceiptLines[j])

\* subtotal + tax
Reference(i, j) ==
    pick_best_value_from_line(ReceiptLines[i]) + pick_best_value_from_line(ReceiptLines[j])

\* line k is a total-labelled line that yields a candidate
IsTotalCandidate(k) ==
    /\ IsTotalLine(ReceiptLines[k])
    /\ ~is_excluded_amount_line(ReceiptLines[k])
    /\ HasValue(ReceiptLines[k])

\* the value of line k is within 5 cents of v
Within5Cents(k, v) ==
    /\ pick_best_value_from_line(ReceiptLines[k]) - v <= 5
    /\ v - pick_best_value_from_line(ReceiptLines[k]) <= 5

\* C13: for a text with a subtotal line, a tax line and a total-labelled
\* line whose value is subtotal + tax within 5 cents, extract_amount returns
\* the total line's value with confidence at least 0.95, with or without a
\* currency marker on the total line.
C13_ConfirmedTotal ==
    fields # NoneRec
        => \A i, j, k \in 1..Len(ReceiptLines) :
               (/\ IsReference(i, j)
                /\ IsTotalCandidate(k)
                /\ Within5Cents(k, Reference(i, j)))
                   => /\ fields.amount = pick_best_value_from_line(ReceiptLines[k])
                      /\ fields.amount_confidence >= 95 * (Unit \div 100)

\* C14: with a subtotal line and a tax line that carry values, extract_amount
\* returns subtotal + tax when no total-labelled line yields a candidate, and
\* also when the total-labelled candidate is wildly larger than subtotal +
\* tax (more than 20 times).
C14_ReferenceValue ==
    fields # NoneRec
        => \A i, j \in 1..Len(ReceiptLines) :
               IsReference(i, j)
                   => /\ (\A k \in 1..Len(ReceiptLines) : ~IsTotalCandidate(k))
                          => fields.amount = Reference(i, j)
                      /\ \A k \in 1..Len(ReceiptLines) :
                             (/\ IsTotalCandidate(k)
                              /\ pick_best_value_from_line(ReceiptLines[k])
                                     > 20 * Reference(i, j))
                                 => fields.amount = Reference(i, j)

(***************************************************************************)
(* C15                                                                     *)
(***************************************************************************)
\* a line one of whose money spans has the value v
Supplies(ln, v) ==
    \E k \in 1..Len(extract_money_spans(ln)) : extract_money_spans(ln)[k].v = v

IsQuantityLine(i) ==
    /\ line_has_unit_trap(ReceiptLines[i])
    /\ ~line_has_currency_marker(ReceiptLines[i])
    /\ ~ContainsAny(parse_norm(ReceiptLines[i]), TOTAL_KEYS_STRONG)
    /\ HasValue(ReceiptLines[i])

\* line k is a total-labelled line with a currency marker and a value
IsMarkedTotal(k) ==
    /\ IsTotalLine(ReceiptLines[k])
    /\ line_has_currency_marker(ReceiptLines[k])
    /\ HasValue(ReceiptLines[k])

\* no line but k, and but the quantity lines, has a currency-shaped number
NoOtherCurrencyNumber(k) ==
    \A m \in 1..Len(ReceiptLines) \ {k} :
        \/ IsQuantityLine(m)
        \/ /\ ~line_has_currency_marker(ReceiptLines[m])
           /\ ~Found(MONEY_2DP_RE, ReceiptLines[m])

WeightedSum(f) ==
    45 * f.vendor_confidence + 35 * f.amount_confidence + 20 * f.date_confidence

\* C17: the parse_confidence of a result is the weighted sum of its vendor,
\* amount and date confidences with weights 0.45, 0.35 and 0.20, rounded to
\* three decimals: a multiple of 0.001 at most 0.0005 away from the sum.
C17_ParseConfidenceIsWeightedSum ==
    fields # NoneRec
        => /\ fields.parse_confidence % 1000 = 0
           /\ 100 * fields.parse_confidence - WeightedSum(fields) <= 50000
           /\ WeightedSum(fields) - 100 * fields.parse_confidence <= 50000

\* a text was extracted whose three confidences differ and are not zero
C17_Witness ==
    /\ fields # NoneRec
    /\ fields.vendor_confidence > 0
    /\ fields.amount_confidence > fields.vendor_confidence
    /\ fields.date_confidence > fields.amount_confidence
    /\ fields.parse_confidence > 0

(***************************************************************************)
(* C19                                                                     *)
(***************************************************************************)
\* C19: for an empty or whitespace-only text, extract_fields and categorize
\* yield vendor "", date "", amount 0.0, every confidence 0.0, the category
\* "Other" and a reasons list that is not empty.
C19_EmptyInput ==
    (pc = "suggested" /\ Strip(raw_text) = "")
        => /\ fields.vendor = ""
           /\ fields.date = ""
           /\ fields.amount = 0
           /\ fields.vendor_confidence = 0
           /\ fields.date_confidence = 0
           /\ fields.amount_confidence = 0
           /\ fields.parse_confidence = 0
           /\ suggestion.category = "Other"
           /\ suggestion.confidence = 0
           /\ suggestion.reasons # <<>>

(***************************************************************************)
(* extract_fields and categorize on texts of keyword lines                 *)
(***************************************************************************)
\* a vendor a rule knows, a vendor a memory knows, and six lines that each
\* hold a keyword of another category and no word of a rule
KeywordCorpus == <<"SHELL OIL", "Acme Co", "pump 3", "grill", "lumber",
                   "ladder", "entire", "drink">>

MaxKeywordLines == 5

KeywordTexts == Subtexts(KeywordCorpus, 1, MaxKeywordLines)

InitKeywords == raw_text \in KeywordTexts /\ TextUploaded

SpecKeywords == InitKeywords /\ [][NextParse]_vars

(***************************************************************************)
(* C20                                                                     *)
(***************************************************************************)
NoDuplicates(q) == \A j, k \in 1..Len(q) : q[j] = q[k] => j = k

\* C20: the reasons list categorize returns is not empty, has no string
\* twice and has at most 4 entries, whichever tier produced the result.
C20_ReasonsShape ==
    pc = "suggested"
        => /\ suggestion.reasons # <<>>
           /\ NoDuplicates(suggestion.reasons)
           /\ Len(suggestion.reasons) <= 4

\* categorize went to the keyword tier on a text with keywords of more than
\* four categories and returned four reasons
C20_Witness ==
    /\ pc = "suggested"
    /\ rule_suggest(raw_text, vendor_in) = NoneRec
    /\ Len(BumpReasons(Lower(raw_text), 1)) > 4
    /\ Len(suggestion.reasons) = 4

(***************************************************************************)
(* categorize with the memory load_memory returns, whatever memory.json    *)
(* holds                                                                   *)
(***************************************************************************)
\* what memory.json may hold when a run of the script starts: nothing, what
\* save_memory wrote, and what another writer left there
MemoryFiles ==
    {MissingFile,
     DefaultMemory,
     remember_vendor_mapping(DefaultMemory, "Acme Co", "Fuel", "6100"),
     [vendor_map |-> ("acme co" :> [category |-> "Travel", account_code |-> ""])],
     [vendor_map |-> ("acme co" :> [account_code |-> "6100"])],
     [vendor_map |-> ("acme co" :> [category |-> "", account_code |-> "6100"])],
     [vendor_map |-> ("acme co" :> [category |-> None, account_code |-> "6100"])],
     [vendor_mappings |-> <<[vendor |-> "Acme Co"]>>],
     [vendor_mappings |-> <<[vendor |-> "Acme Co", category |-> None],
                            [vendor |-> "ACME CO", category |-> ""]>>],
     [vendor_map |-> ("acme co" :> [category |-> None, account_code |-> ""]),
      vendor_mappings |-> <<[vendor |-> "Acme Co", category |-> "Meals"]>>],
     [vendor_map |-> ("acme co" :> NotADict)],
     [vendor_map |-> NotADict],
     [vendor_mappings |-> <<NotADict, [vendor |-> None, category |-> "Fuel"]>>],
     [vendor_mappings |-> <<[vendor |-> Number, category |-> "Fuel"]>>],
     NotADict}

\* app.py: MEM = load_memory(WS_DIR); reading the file may raise
OpenWorkspace ==
    /\ pc = "open"
    /\ \E readable \in BOOLEAN : MEM' = load_memory(memfile, readable)
    /\ pc' = "text"
    /\ UNCHANGED <<raw_text, vendor_in, fields, suggestion, form, memfile,
                   persisted, last_write, rows, next_id, now>>

\* categorize(raw_text, vendor=..., memory=MEM) with the vendor extracted or
\* one of the caller's
CategorizeLoaded ==
    /\ pc = "fields"
    /\ \E v \in {Strip(fields.vendor)} \cup VendorInputs : Categorize(v, MEM)

InitLoaded ==
    /\ raw_text \in CatTexts
    /\ vendor_in = ""
    /\ fields = NoneRec
    /\ suggestion = NoneRec
    /\ form = NoneRec
    /\ MEM = NoneRec
    /\ memfile \in MemoryFiles
    /\ persisted = {}
    /\ last_write = NoneRec
    /\ rows = <<>>
    /\ next_id = 1
    /\ now = 1
    /\ pc = "open"

NextLoaded == OpenWorkspace \/ ExtractFields \/ CategorizeLoaded

SpecLoaded == InitLoaded /\ [][NextLoaded]_vars

(***************************************************************************)
(* C21                                                                     *)
(***************************************************************************)
\* C21: for every raw text, vendor and memory, a memory whose stored
\* category is an arbitrary string included, the category categorize returns
\* is one of the nine labels of the taxonomy.
C21_CategoryInTaxonomy ==
    (pc = "suggested" /\ suggestion # Raised)
        => suggestion.category \in SeqToSet(CATEGORIES)

(***************************************************************************)
(* C22                                                                     *)
(***************************************************************************)
\* the memory is a dict whose vendor_map is a dict of dicts and whose
\* vendor_mappings is a list of dicts with a str or null vendor
SoundMemory(mem) ==
    /\ mem # NoneRec
    /\ IsDict(mem)
    /\ IsDict(DictGet(mem, "vendor_map", EmptyDict))
    /\ \A k \in DOMAIN DictGet(mem, "vendor_map", EmptyDict) : IsDict(mem.vendor_map[k])
    /\ \A j \in DOMAIN DictGet(mem, "vendor_mappings", <<>>) :
          /\ IsDict(mem.vendor_mappings[j])
          /\ DictGet(mem.vendor_mappings[j], "vendor", "") # Number

\* the entries a sound memory holds for the vendor: the one of vendor_map
\* under its key, and the rows of vendor_mappings that name it
EntriesFor(mem, vendor) ==
    {DictGet(mem, "vendor_map", EmptyDict)[k] :
        k \in DOMAIN DictGet(mem, "vendor_map", EmptyDict) \cap {categorize_norm(vendor)}}
    \cup {mem.vendor_mappings[j] :
            j \in {i \in DOMAIN DictGet(mem, "vendor_mappings", <<>>) :
                     categorize_norm(StrOr(DictGet(mem.vendor_mappings[i], "vendor", "")))
                         = categorize_norm(vendor)}}

\* the category of the entry is missing, empty or null
LacksCategory(e) == DictGet(e, "category", None) \in {None, ""}

\* every entry the memory holds for the vendor, and it holds one, lacks a
\* category
OnlyEntriesWithoutCategory(mem, vendor) ==
    /\ SoundMemory(mem)
    /\ categorize_norm(vendor) # ""
    /\ EntriesFor(mem, vendor) # {}
    /\ \A e \in EntriesFor(mem, vendor) : LacksCategory(e)

\* C22: when the entries the memory holds for the vendor lack a category
\* (missing, empty or null), categorize raises nothing and returns exactly
\* what it returns for the same text and vendor with no memory.
C22_NoCategoryIsAMiss ==
    (pc = "suggested" /\ OnlyEntriesWithoutCategory(MEM, vendor_in))
        => /\ suggestion # Raised
           /\ suggestion = categorize(raw_text, vendor_in, NoneRec)

\* categorize got past the rules to a memory whose entry for the vendor has
\* an empty category
C22_Witness ==
    /\ pc = "suggested"
    /\ OnlyEntriesWithoutCategory(MEM, vendor_in)
    /\ \E e \in EntriesFor(MEM, vendor_in) : DictGet(e, "category", None) = ""
    /\ ~RuleMatches

(***************************************************************************)
(* C23                                                                     *)
(***************************************************************************)
\* C23: for every raw text, every vendor and every memory value load_memory
\* can return, malformed contents included, extract_fields and categorize
\* return a result and never raise.
C23_NeverRaises ==
    /\ pc = "fields" => fields # Raised
    /\ pc = "suggested" => suggestion # Raised

(***************************************************************************)
(* extract_fields on receipt headers                                       *)
(***************************************************************************)
\* a phone number, an address, a date, a word of thanks, a word of payment
\* printed with spaced letters, and the store's name
VendorCorpus == <<"215-555-1212", "12 Main St", "03/14/2024", "thank you",
                  "C A S H", "B&N #2259">>

\* a line longer than MaxVendorLineLen
LongVendorLine == "keep this slip as proof of each item you paid"

MaxVendorLines == 4

\* the headers: up to MaxVendorLines lines of the corpus, and the long line
\* alone or above one line of the corpus
VendorTexts ==
    Subtexts(VendorCorpus, 1, MaxVendorLines)
        \cup {LineThen(LongVendorLine, t) : t \in Subtexts(VendorCorpus, 1, 1)}

InitVendor == raw_text \in VendorTexts /\ TextUploaded

SpecVendor == InitVendor /\ [][NextParse]_vars

(***************************************************************************)
(* C24                                                                     *)
(***************************************************************************)
\* the candidates extract_vendor scores: the lines of the window and the
\* pairs of adjacent lines
WindowCandidates ==
    VendorCandidates(SubSeq(CleanLines(raw_text), 1,
                            Min(VendorWindow, Len(CleanLines(raw_text)))), 1)

\* C24: the vendor extract_vendor returns is never a line the noise filter
\* disqualifies, and when every candidate of the window is disqualified the
\* result is the vendor "" with confidence 0.0 and no candidates.
C24_VendorNeverNoise ==
    fields # NoneRec
        => /\ fields.vendor # "" => ~looks_like_vendor_noise(fields.vendor)
           /\ (\A j \in 1..Len(WindowCandidates) :
                   looks_like_vendor_noise(WindowCandidates[j]))
                 => /\ fields.vendor = ""
                    /\ fields.vendor_confidence = 0
                    /\ fields.vendor_candidates = <<>>

(***************************************************************************)
(* transactions.csv under the calls the tabs of src/app.py make            *)
(***************************************************************************)
\* the receipts stored in one run of the model, and the calls made
MaxStored == 2
MaxCalls == 4

\* what add_txn is handed
StoreDates == {"2024-03-13", "2024-03-14"}
StoreConfidences == {350000, 920000}

\* what the user may leave in the vendor box of a review card
ReviewedVendors == {"Acme Co", "  "}

\* the ids a caller may name: those handed out and one never handed out
StoreIds == 1..(MaxStored + 1)

\* the call that is made, what it found in the file, and the call before it
Called(op, txn_id, patch) ==
    /\ last_write' = [op |-> op, id |-> txn_id, patch |-> patch, before |-> rows,
                      prev |-> [op |-> DictGet(last_write, "op", ""),
                                id |-> DictGet(last_write, "id", 0),
                                before |-> DictGet(last_write, "before", <<>>)]]
    /\ now' = now + 1
    /\ UNCHANGED <<raw_text, vendor_in, fields, suggestion, form, MEM, memfile,
                   persisted, pc>>

\* the rows of the Needs-review tab: df[df["needs_review"] == 1]
review_rows(file) == SelectSeq(list_txns(file, FALSE, FALSE), LAMBDA r : r.needs_review = 1)

\* add_txn(WS_DIR, date=..., vendor=..., amount=..., confidence=...)
StoreAdd ==
    /\ pc = "store" /\ now <= MaxCalls /\ next_id <= MaxStored
    /\ \E d \in StoreDates, c \in StoreConfidences :
          rows' = add_txn(rows, next_id, now, d, "Acme Co", 3872, "Other",
                          coa_for_category("Other"), c, "")
    /\ next_id' = next_id + 1
    /\ Called("add_txn", next_id, <<>>)

\* "Bulk approve selected": the ids are picked from the Needs-review list
BulkApprove ==
    /\ pc = "store" /\ now <= MaxCalls
    /\ \E j \in 1..Len(review_rows(rows)) :
          /\ rows' = update_txn(rows, review_rows(rows)[j].id,
                         [needs_review |-> 0, approved_at |-> now, updated_at |-> now],
                         now)
          /\ Called("update_txn", review_rows(rows)[j].id,
                    [needs_review |-> 0, approved_at |-> now, updated_at |-> now])
    /\ UNCHANGED next_id

\* the patch of the "Approve" button of a review card
approve_patch(r, new_vendor, t) ==
    [vendor |-> new_vendor, date |-> r.date, amount |-> r.amount,
     category |-> r.category, account_code |-> coa_for_category(r.category),
     job |-> r.job, approved_at |-> t,
     confidence |-> Max(r.confidence, 900000),
     needs_review |-> needs_review(new_vendor, r.date, r.amount,
                                   Max(r.confidence, 900000)),
     updated_at |-> t]

\* "Approve" on a review card, with the vendor box as the user left it
ApproveCard ==
    /\ pc = "store" /\ now <= MaxCalls
    /\ \E j \in 1..Len(review_rows(rows)), v \in ReviewedVendors :
          /\ rows' = update_txn(rows, review_rows(rows)[j].id,
                                approve_patch(review_rows(rows)[j], v, now), now)
          /\ Called("update_txn", review_rows(rows)[j].id,
                    approve_patch(review_rows(rows)[j], v, now))
    /\ UNCHANGED next_id

\* soft_delete_txn(WS_DIR, id)
SoftDelete ==
    /\ pc = "store" /\ now <= MaxCalls
    /\ \E i \in StoreIds :
          rows' = soft_delete_txn(rows, i, now) /\ Called("soft_delete_txn", i, <<>>)
    /\ UNCHANGED next_id

\* undo_delete_txn(WS_DIR, did)
UndoDelete ==
    /\ pc = "store" /\ now <= MaxCalls
    /\ \E i \in StoreIds :
          rows' = undo_delete_txn(rows, i, now) /\ Called("undo_delete_txn", i, <<>>)
    /\ UNCHANGED next_id

\* purge_deleted_txn(WS_DIR, did)
PurgeDeleted ==
    /\ pc = "store" /\ now <= MaxCalls
    /\ \E i \in StoreIds :
          rows' = purge_deleted_txn(rows, i) /\ Called("purge_deleted_txn", i, <<>>)
    /\ UNCHANGED next_id

InitStore == NoUpload /\ NewWorkspace /\ pc = "store"

NextStore ==
    StoreAdd \/ BulkApprove \/ ApproveCard \/ SoftDelete \/ UndoDelete \/ PurgeDeleted

SpecStore == InitStore /\ [][NextStore]_vars

(***************************************************************************)
(* The notions the properties of the store are stated in                   *)
(***************************************************************************)
IdsOf(file) == {file[j].id : j \in 1..Len(file)}

\* the record is in the file and not deleted
IsLive(file, txn_id) == \E j \in 1..Len(file) : file[j].id = txn_id /\ file[j].deleted = 0

\* the two files hold the same records but for the one named
OthersUnchanged(before, after, txn_id) ==
    /\ IdsOf(after) = IdsOf(before)
    /\ \A k \in IdsOf(before) \ {txn_id} : RowOf(after, k) = RowOf(before, k)

\* the rows agree on every column but deleted, deleted_at and updated_at
SameButDeletion(a, b) ==
    \A f \in DOMAIN a \ {"deleted", "deleted_at", "updated_at"} : a[f] = b[f]

\* the last call and the one before it
LastOp == DictGet(last_write, "op", "")
LastId == DictGet(last_write, "id", 0)
LastPatch == DictGet(last_write, "patch", <<>>)
FileBefore == DictGet(last_write, "before", <<>>)
PrevCall == DictGet(last_write, "prev", [op |-> "", id |-> 0, before |-> <<>>])

\* the last call was soft_delete_txn on a record that was live
JustDeleted == LastOp = "soft_delete_txn" /\ IsLive(FileBefore, LastId)

\* the last call was undo_delete_txn, right after soft_delete_txn of the
\* same record, which was live
JustRestored ==
    /\ LastOp = "undo_delete_txn"
    /\ PrevCall.op = "soft_delete_txn"
    /\ PrevCall.id = LastId
    /\ IsLive(PrevCall.before, LastId)

(***************************************************************************)
(* C25                                                                     *)
(***************************************************************************)
\* C25: after soft_delete_txn(id) the record is still in the store, absent
\* from list_txns() and present in list_txns(only_deleted=True); a following
\* undo_delete_txn(id) returns it to list_txns() with every field but
\* deleted, deleted_at and updated_at as before the delete; neither call
\* changes another record.
C25_SoftDeleteAndRestore ==
    /\ JustDeleted
         => /\ LastId \in IdsOf(rows)
            /\ LastId \notin IdsOf(list_txns(rows, FALSE, FALSE))
            /\ LastId \in IdsOf(list_txns(rows, TRUE, TRUE))
            /\ OthersUnchanged(FileBefore, rows, LastId)
    /\ JustRestored
         => /\ LastId \in IdsOf(list_txns(rows, FALSE, FALSE))
            /\ SameButDeletion(RowOf(rows, LastId), RowOf(PrevCall.before, LastId))
            /\ OthersUnchanged(FileBefore, rows, LastId)

\* a record that needed no review was deleted and restored next to another
\* record
C25_Witness ==
    /\ JustRestored
    /\ RowOf(PrevCall.before, LastId).needs_review = 0
    /\ Len(rows) >= 2

(***************************************************************************)
(* C26                                                                     *)
(***************************************************************************)
\* C26: a record leaves the store only in a call of purge_deleted_txn with
\* its id made while its deleted flag is 1; no call of add_txn, update_txn,
\* soft_delete_txn or undo_delete_txn, and no purge of a live record or of
\* an unknown id, removes a record.
C26_RemovedOnlyByPurge ==
    [][\A i \in IdsOf(rows) :
          i \notin IdsOf(rows')
              => /\ last_write'.op = "purge_deleted_txn"
                 /\ last_write'.id = i
                 /\ RowOf(rows, i).deleted = 1]_vars

\* a purge took a deleted record away and left a live one
C26_Witness ==
    /\ LastOp = "purge_deleted_txn"
    /\ LastId \in IdsOf(FileBefore) \ IdsOf(rows)
    /\ \E i \in IdsOf(rows) : IsLive(rows, i)

(***************************************************************************)
(* C27                                                                     *)
(***************************************************************************)
\* C27: saving a new receipt in the upload flow (add_txn, then the
\* post-save update_txn on the row taken as the newest) changes no field of
\* a record stored before: every row of the file is in the file after the
\* step, whatever the dates of the rows.
C27_SaveLeavesStoredRecords ==
    [][\A j \in 1..Len(rows) : \E k \in 1..Len(rows') : rows'[k] = rows[j]]_vars

(***************************************************************************)
(* C28                                                                     *)
(***************************************************************************)
\* the last call was update_txn with the patch of "Bulk approve selected",
\* on a record whose vendor and date are not empty and whose amount is
\* positive
JustBulkApproved ==
    /\ LastOp = "update_txn"
    /\ DOMAIN LastPatch = {"needs_review", "approved_at", "updated_at"}
    /\ LastPatch.needs_review = 0
    /\ LastId \in IdsOf(FileBefore)
    /\ Strip(RowOf(FileBefore, LastId).vendor) # ""
    /\ Strip(RowOf(FileBefore, LastId).date) # ""
    /\ RowOf(FileBefore, LastId).amount > 0

\* C28: after "Bulk approve selected" is applied to a record whose vendor
\* and date are not empty and whose amount is positive, the record's stored
\* needs_review is 0 and it is not in the Needs-review list, whatever its
\* stored confidence.
C28_BulkApproveClearsReview ==
    JustBulkApproved
        => /\ RowOf(rows, LastId).needs_review = 0
           /\ LastId \notin IdsOf(review_rows(rows))

(***************************************************************************)
(* C30                                                                     *)
(***************************************************************************)
\* C30: after any sequence of add_txn and update_txn, every stored record
\* whose needs_review is 0 has a vendor and a date that are not empty or
\* whitespace-only, an amount greater than 0 and a confidence of at least
\* 0.75.
C30_ClearedRecordsAreComplete ==
    \A j \in 1..Len(rows) :
        rows[j].needs_review = 0
            => /\ Strip(rows[j].vendor) # ""
               /\ Strip(rows[j].date) # ""
               /\ rows[j].amount > 0
               /\ rows[j].confidence >= 75 * (Unit \div 100)

(***************************************************************************)
(* Two sessions on one workspace.  Each is a run of src/app.py with its    *)
(* own MEM: here MEM, pc and last_write hold one value per session, and    *)
(* memfile is the memory.json they share.                                  *)
(***************************************************************************)
Sessions == {"A", "B"}

\* the vendors a session approves; no key of one session is a key of the
\* other
SessionVendors ==
    [s \in Sessions |-> IF s = "A" THEN {"Acme Co", "ACME CO."}
                        ELSE {"Shell", "joe's cafe"}]

\* the approvals a session makes in one run of the model
MaxApprovals == 2

\* MEM = load_memory(WS_DIR) at the start of the run
SessionLoad(s) ==
    /\ pc[s] = "load"
    /\ \E readable \in BOOLEAN :
          MEM' = [MEM EXCEPT ![s] = load_memory(memfile, readable)]
    /\ pc' = [pc EXCEPT ![s] = "approve"]
    /\ UNCHANGED <<raw_text, vendor_in, fields, suggestion, form, memfile,
                   persisted, last_write, rows, next_id, now>>

\* remember_vendor_mapping(MEM, vendor=..., category=..., account_code=...)
SessionRemember(s) ==
    /\ pc[s] = "approve"
    /\ \E v \in SessionVendors[s], ca \in Mappings :
          /\ MEM' = [MEM EXCEPT ![s] = remember_vendor_mapping(MEM[s], v, ca[1], ca[2])]
          /\ last_write' = [last_write EXCEPT ![s] = @ \cup {norm_vendor(v)}]
    /\ pc' = [pc EXCEPT ![s] = "save"]
    /\ UNCHANGED <<raw_text, vendor_in, fields, suggestion, form, memfile,
                   persisted, rows, next_id, now>>

\* save_memory(WS_DIR, MEM); st.rerun() starts the next run
SessionSave(s) ==
    /\ pc[s] = "save"
    /\ memfile' = save_memory(MEM[s])
    /\ persisted' = persisted \cup VendorKeys(MEM[s])
    /\ form' = [form EXCEPT ![s] = @ + 1]
    /\ pc' = [pc EXCEPT ![s] = IF form[s] + 1 < MaxApprovals THEN "load" ELSE "done"]
    /\ UNCHANGED <<raw_text, vendor_in, fields, suggestion, MEM, last_write,
                   rows, next_id, now>>

InitSessions ==
    /\ raw_text = ""
    /\ vendor_in = ""
    /\ fields = NoneRec
    /\ suggestion = NoneRec
    /\ form = [s \in Sessions |-> 0]
    /\ MEM = [s \in Sessions |-> DefaultMemory]
    /\ memfile = MissingFile
    /\ persisted = {}
    /\ last_write = [s \in Sessions |-> {}]
    /\ rows = <<>>
    /\ next_id = 1
    /\ now = 1
    /\ pc = [s \in Sessions |-> "load"]

NextSessions ==
    \E s \in Sessions : SessionLoad(s) \/ SessionRemember(s) \/ SessionSave(s)

SpecSessions == InitSessions /\ [][NextSessions]_vars

(***************************************************************************)
(* C29                                                                     *)
(***************************************************************************)
\* C29: when two sessions on one workspace each run load_memory,
\* remember_vendor_mapping (for vendors with different keys) and
\* save_memory, then under every interleaving of these steps the mappings
\* of both are in the persisted memory.json afterwards.
C29_NoMappingLost ==
    (\A s \in Sessions : pc[s] \in {"load", "done"} /\ form[s] > 0)
        => \A s \in Sessions : last_write[s] \subseteq VendorKeys(memfile)

====
